---- MODULE Spec2Model ----
(***************************************************************************)
(* Order lifecycle and delivery dispatch of the Wendy marketplace backend. *)
(*                                                                         *)
(* The relational store is the state: the orders, delivery_requests,       *)
(* deliverers (profile joined with its user row) and stores tables.  Each  *)
(* Flask view is one action.  Spec runs every view as one step; SpecRace   *)
(* splits accept_delivery and update_order_status into the two steps a     *)
(* request really takes (load and validate, then flush and commit), with   *)
(* one request in flight per gunicorn worker.  SpecPlatform runs the fee   *)
(* and limit views over the settings and cities an admin can write,        *)
(* SpecNearby the positions the deliverers report, SpecStores the removal  *)
(* of stores, and SpecGeometry applies the two functions of geolocation.   *)
(* SpecOrders places orders against the stock of the products, SpecRemoval *)
(* deletes deliverers who carry orders, and SpecRateLimit and SpecLogin    *)
(* run the in-memory limiters of security_improvements in both workers.    *)
(***************************************************************************)
EXTENDS Integers, Sequences, FiniteSets, TLC

\* ---------------------------------------------------------------- bounds
NumOrders == 1
NumDeliverers == 2
NumRequests == 1
MaxClock == 1
MaxNotes == 2
MaxLocations == 3
NumListed == 2
NumCities == 1
MaxLog == 6
NumProducts == 1
InitStock == 3
MaxItems == 2
MaxQuantity == 2
MaxCreated == 2
NumOrderNumbers == 2

\* ------------------------------------------------------ program constants
\* gunicorn_config.py: workers = 2, worker_class = "sync"
workers == 2

\* ------------------------------------------------------------ identifiers
NULL == 0
DelivererIds == 1..NumDeliverers          \* users with user_type 'deliverer'
StoreIds == {1, 2}
StoreOwnerId(s) == 10 + s                  \* users with user_type 'store'
StoreOwnerIds == {StoreOwnerId(s) : s \in StoreIds}
ClientId == 21                             \* a user with user_type 'client'
AdminId == 31                              \* a user with user_type 'admin'
UserIds == DelivererIds \cup StoreOwnerIds \cup {ClientId, AdminId}
NoOrder == NumOrders + 1                   \* an id no order row has
NoRequest == NumRequests + 1               \* an id no delivery request has
WorkerIds == 1..workers

\* Every order of the model was placed by the client at store 1; store 2 has
\* no orders.  Both stores have products.
OrderStore(o) == 1
StoreHasProducts(s) == TRUE

OrderStatuses ==
    {"pending", "accepted", "preparing", "ready", "delivering", "delivered", "cancelled"}
RequestStatuses == {"pending", "accepted", "picked_up", "delivered", "cancelled"}

VARIABLES
    orders,             \* orders table: id -> row
    delivery_requests,  \* delivery_requests table: id -> row
    deliverers,         \* deliverers table joined with the users row, by user id
    stores,             \* stores table joined with the owner's users row
    now,                \* datetime.utcnow(), a logical clock
    session,            \* per worker: the request whose commit is pending
    locations,          \* deliverer_locations table, in insertion order
    tracking,           \* order_tracking table, in insertion order
    platform_settings,  \* platform_settings table: setting_key -> row
    allowed_cities,     \* allowed_cities table: id -> row
    response,           \* what the last read-only call answered
    request_counts,     \* per process: key -> queue of request times
    failed_login_attempts, \* per process: ip -> queue of failure times
    security_log,       \* the SECURITY_EVENT lines the limited routes print
    products            \* products table: id -> row

\* The tables of the platform configuration and the answer of the last query.
platform == <<platform_settings, allowed_cities, response>>

\* The module-level dictionaries of security_improvements.
limiters == <<request_counts, failed_login_attempts, security_log>>

vars == <<orders, delivery_requests, deliverers, stores, now, session, locations, tracking,
          platform_settings, allowed_cities, response, request_counts,
          failed_login_attempts, security_log, products>>

\* The ids of the rows the two job tables hold.
OrderIds == DOMAIN orders
RequestIds == DOMAIN delivery_requests

\* --------------------------------------------------------------- helpers
Idle == [op |-> "idle", user |-> NULL, target |-> NULL, arg |-> ""]

\* User.query.get(user_id) finds a row
UserExists(u) ==
    CASE u \in DelivererIds -> deliverers[u].exists
      [] u \in StoreOwnerIds -> stores[u - 10].exists
      [] OTHER -> TRUE

\* User.user_type
user_type(u) ==
    CASE u \in DelivererIds -> "deliverer"
      [] u \in StoreOwnerIds -> "store"
      [] u = AdminId -> "admin"
      [] OTHER -> "client"

\* admin.py admin_required(): user and user.user_type == 'admin'
admin_required(u) == UserExists(u) /\ user_type(u) = "admin"

\* SecurityValidator.sanitize_string on the status field: a missing or
\* non-string value (written "") gives "", a tag-free trimmed token of at
\* most 50 characters is returned as it is.
sanitize_string(text) == IF text = "" THEN "" ELSE text

\* The static methods class SecurityValidator defines.  A call of any other
\* attribute raises AttributeError inside the view's try block.
SecurityValidatorMethods ==
    {"validate_email", "validate_password", "validate_phone", "validate_cpf",
     "validate_cnpj", "sanitize_string", "validate_numeric_range"}

\* The URL variables of each admin route and the parameters its view function
\* is defined with.  Flask calls view(**view_args): a view that does not take
\* the route's variables raises TypeError before its body runs, the request
\* ends with status 500 and nothing is written.
RouteArgs(view) ==
    CASE view \in {"cancel_order_admin", "update_order_status_admin"} -> {"order_id"}
      [] view \in {"delete_user", "delete_user_account", "suspend_user_account",
                   "reactivate_user_account"} -> {"user_id"}
      [] view \in {"delete_store", "reject_store", "reactivate_store"} -> {"store_id"}
      [] view \in {"approve_deliverer", "reject_deliverer", "delete_deliverer",
                   "reactivate_deliverer"} -> {"deliverer_id"}
      [] OTHER -> {}

ViewParams(view) ==
    CASE view = "delete_user" -> {"user_id"}
      [] view \in {"delete_store", "reject_store", "reactivate_store"} -> {"store_id"}
      [] view \in {"approve_deliverer", "reject_deliverer", "delete_deliverer",
                   "reactivate_deliverer"} -> {"deliverer_id"}
      [] OTHER -> {}

ViewCallable(view) == RouteArgs(view) = ViewParams(view)

\* ---------------------------------------------- orders.update_order_status
\* A table that also lets a store hand a prepared order over by itself.
valid_transitions_store_delivers(role, status) ==
    CASE role = "store" /\ status = "pending" -> {"accepted", "cancelled"}
      [] role = "store" /\ status = "accepted" -> {"preparing"}
      [] role = "store" /\ status = "preparing" -> {"ready", "delivering"}
      [] role = "deliverer" /\ status = "ready" -> {"delivering"}
      [] role = "deliverer" /\ status = "delivering" -> {"delivered"}
      [] role = "admin" /\ status = "pending" -> {"accepted", "cancelled"}
      [] role = "admin" /\ status = "accepted" -> {"preparing", "cancelled"}
      [] role = "admin" /\ status = "preparing" -> {"ready", "cancelled"}
      [] role = "admin" /\ status = "ready" -> {"delivering", "cancelled"}
      [] role = "admin" /\ status = "delivering" -> {"delivered", "cancelled"}
      [] OTHER -> {}

\* valid_transitions.get(user.user_type, {}).get(order.status, [])
valid_transitions(role, status) ==
    CASE role = "store" /\ status = "pending" -> {"accepted", "cancelled"}
      [] role = "store" /\ status = "accepted" -> {"preparing"}
      [] role = "store" /\ status = "preparing" -> {"ready"}
      [] role = "deliverer" /\ status = "ready" -> {"delivering"}
      [] role = "deliverer" /\ status = "delivering" -> {"delivered"}
      [] role = "admin" /\ status = "pending" -> {"accepted", "cancelled"}
      [] role = "admin" /\ status = "accepted" -> {"preparing", "cancelled"}
      [] role = "admin" /\ status = "preparing" -> {"ready", "cancelled"}
      [] role = "admin" /\ status = "ready" -> {"delivering", "cancelled"}
      [] role = "admin" /\ status = "delivering" -> {"delivered", "cancelled"}
      [] OTHER -> {}

\* has_permission of update_order_status
\* has_permission with a deliverer branch that does not compare
\* order.deliverer_id with the caller.
has_permission_any_deliverer(u, o) ==
    CASE user_type(u) = "store" -> stores[u - 10].exists /\ OrderStore(o) = u - 10
      [] user_type(u) = "deliverer" -> TRUE
      [] user_type(u) = "admin" -> TRUE
      [] OTHER -> FALSE

has_permission(u, o) ==
    CASE user_type(u) = "store" -> stores[u - 10].exists /\ OrderStore(o) = u - 10
      [] user_type(u) = "deliverer" -> orders[o].deliverer_id = u
      [] user_type(u) = "admin" -> TRUE
      [] OTHER -> FALSE

\* The answer of update_order_status up to the point where it writes; "ok"
\* means every check passed.  The decorators around the view (rate_limit,
\* validate_json_input, secure_headers) run before it and write no table: the
\* actions are the calls the limiter lets through, and a body without status
\* is answered like an empty one.  A caller whose user row is gone makes
\* user.user_type raise AttributeError (500).
update_order_status_check(u, o, raw) ==
    CASE o \notin OrderIds -> "not_found"
      [] sanitize_string(raw) = "" -> "status_required"
      [] ~UserExists(u) -> "server_error"
      [] ~has_permission(u, o) -> "forbidden"
      [] sanitize_string(raw) \notin valid_transitions(user_type(u), orders[o].status) ->
            "invalid_transition"
      [] OTHER -> "ok"

\* order.status = new_status; order.updated_at = datetime.utcnow(); commit
update_order_status_write(o, new_status) ==
    [orders EXCEPT ![o].status = new_status, ![o].updated_at = now]

update_order_status(u, o, raw) ==
    IF update_order_status_check(u, o, raw) = "ok"
    THEN /\ orders' = update_order_status_write(o, sanitize_string(raw))
         /\ UNCHANGED <<delivery_requests, deliverers, stores, now, session, locations, tracking, platform, limiters, products>>
    ELSE UNCHANGED vars

\* ------------------------------------------------- orders.accept_delivery
accept_delivery_check(u, o) ==
    CASE ~UserExists(u) \/ user_type(u) # "deliverer" -> "forbidden"
      [] o \notin OrderIds -> "not_found"
      [] orders[o].status # "ready" -> "not_available"
      [] orders[o].deliverer_id # NULL -> "already_accepted"
      [] OTHER -> "ok"

\* A write that binds the deliverer and leaves the status as it was.
accept_delivery_write_keeps_status(u, o) ==
    [orders EXCEPT ![o].deliverer_id = u, ![o].updated_at = now]

\* order.deliverer_id = user_id; order.status = "delivering";
\* order.updated_at = datetime.utcnow(); commit
accept_delivery_write(u, o) ==
    [orders EXCEPT ![o].deliverer_id = u, ![o].status = "delivering",
                   ![o].updated_at = now]

\* A view that binds the caller before it looks at the order's status.
accept_delivery_binds_first(u, o) ==
    IF accept_delivery_check(u, o) = "ok"
    THEN /\ orders' = accept_delivery_write(u, o)
         /\ UNCHANGED <<delivery_requests, deliverers, stores, now, session, locations, tracking, platform, limiters, products>>
    ELSE IF accept_delivery_check(u, o) = "not_available"
    THEN /\ orders' = [orders EXCEPT ![o].deliverer_id = u]
         /\ UNCHANGED <<delivery_requests, deliverers, stores, now, session, locations, tracking, platform, limiters, products>>
    ELSE UNCHANGED vars

accept_delivery(u, o) ==
    IF accept_delivery_check(u, o) = "ok"
    THEN /\ orders' = accept_delivery_write(u, o)
         /\ UNCHANGED <<delivery_requests, deliverers, stores, now, session, locations, tracking, platform, limiters, products>>
    ELSE UNCHANGED vars

\* -------------------------------------- deliverers.accept_delivery_request
accept_delivery_request_check(u, r) ==
    CASE ~UserExists(u) \/ user_type(u) # "deliverer" -> "forbidden"
      [] ~deliverers[u].is_online -> "must_be_online"
      [] r \notin RequestIds -> "not_found"
      [] delivery_requests[r].status # "pending" -> "not_available"
      [] delivery_requests[r].deliverer_id # NULL -> "already_accepted"
      [] OTHER -> "ok"

\* A write that takes the request straight to picked_up.
accept_delivery_request_write_picks_up(u, r) ==
    [delivery_requests EXCEPT ![r].deliverer_id = u, ![r].status = "picked_up"]

\* delivery_request.deliverer_id = user_id; delivery_request.status = 'accepted'
accept_delivery_request_write(u, r) ==
    [delivery_requests EXCEPT ![r].deliverer_id = u, ![r].status = "accepted"]

accept_delivery_request(u, r) ==
    IF accept_delivery_request_check(u, r) = "ok"
    THEN /\ delivery_requests' = accept_delivery_request_write(u, r)
         /\ UNCHANGED <<orders, deliverers, stores, now, session, locations, tracking, platform, limiters, products>>
    ELSE UNCHANGED vars

\* ------------------------------- deliverers.update_delivery_request_status
\* valid_transitions.get(delivery_request.status, [])
request_transitions(status) ==
    CASE status = "accepted" -> {"picked_up", "cancelled"}
      [] status = "picked_up" -> {"delivered"}
      [] OTHER -> {}

\* After the user-type check the view calls SecurityValidator.sanitize_int,
\* which the class does not define: the call raises and the view answers 500.
update_delivery_request_status_check(u, r, raw) ==
    CASE ~UserExists(u) \/ user_type(u) # "deliverer" -> "forbidden"
      [] "sanitize_int" \notin SecurityValidatorMethods -> "server_error"
      [] r \notin RequestIds -> "invalid_id"
      [] delivery_requests[r].deliverer_id # u -> "not_found"
      [] sanitize_string(raw) = "" -> "status_required"
      [] sanitize_string(raw) \notin request_transitions(delivery_requests[r].status) ->
            "invalid_transition"
      [] OTHER -> "ok"

update_delivery_request_status(u, r, raw) ==
    IF update_delivery_request_status_check(u, r, raw) = "ok"
    THEN /\ delivery_requests' = [delivery_requests EXCEPT ![r].status = sanitize_string(raw)]
         /\ deliverers' =
               IF sanitize_string(raw) = "delivered"
               THEN [deliverers EXCEPT ![u].total_deliveries = @ + 1]
               ELSE deliverers
         /\ UNCHANGED <<orders, stores, now, session, locations, tracking, platform, limiters, products>>
    ELSE UNCHANGED vars

\* ------------------------------------------------ deliverers.toggle_online
toggle_online_check(u) ==
    CASE ~UserExists(u) \/ user_type(u) # "deliverer" -> "forbidden"
      [] ~deliverers[u].is_approved -> "not_approved"
      [] OTHER -> "ok"

toggle_online(u) ==
    IF toggle_online_check(u) = "ok"
    THEN /\ deliverers' = [deliverers EXCEPT ![u].is_online = ~@]
         /\ UNCHANGED <<orders, delivery_requests, stores, now, session, locations, tracking, platform, limiters, products>>
    ELSE UNCHANGED vars

\* ------------------------------------- admin: approval of deliverer profiles
\* The admin routes address a profile by Deliverer.id; the model keys the
\* profile by its user id (one profile per deliverer user).
deliverer_admin_check(view, a, d) ==
    CASE ~ViewCallable(view) -> "server_error"
      [] ~admin_required(a) -> "forbidden"
      [] d \notin DelivererIds -> "not_found"
      [] ~deliverers[d].exists -> "not_found"
      [] OTHER -> "ok"

approve_deliverer(a, d) ==
    IF deliverer_admin_check("approve_deliverer", a, d) = "ok"
    THEN /\ deliverers' = [deliverers EXCEPT ![d].is_approved = TRUE]
         /\ UNCHANGED <<orders, delivery_requests, stores, now, session, locations, tracking, platform, limiters, products>>
    ELSE UNCHANGED vars

\* deliverer.is_approved = False; deliverer.user.is_active = False
reject_deliverer(a, d) ==
    IF deliverer_admin_check("reject_deliverer", a, d) = "ok"
    THEN /\ deliverers' = [deliverers EXCEPT ![d].is_approved = FALSE,
                                             ![d].is_active = FALSE]
         /\ UNCHANGED <<orders, delivery_requests, stores, now, session, locations, tracking, platform, limiters, products>>
    ELSE UNCHANGED vars

\* deliverer.is_approved = False; deliverer.user.is_active = True
reactivate_deliverer(a, d) ==
    IF deliverer_admin_check("reactivate_deliverer", a, d) = "ok"
    THEN /\ deliverers' = [deliverers EXCEPT ![d].is_approved = FALSE,
                                             ![d].is_active = TRUE]
         /\ UNCHANGED <<orders, delivery_requests, stores, now, session, locations, tracking, platform, limiters, products>>
    ELSE UNCHANGED vars

\* ---------------------------------------------------- admin.reassign_order
\* Checks that take any deliverer who exists and is active.
reassign_order_check_any_profile(a, o, d) ==
    CASE ~admin_required(a) -> "forbidden"
      [] o = NULL \/ d = NULL -> "field_required"
      [] o \notin OrderIds -> "not_found"
      [] orders[o].status \notin {"accepted", "preparing", "ready"} -> "bad_status"
      [] d \notin DelivererIds -> "deliverer_not_found"
      [] ~(deliverers[d].exists /\ deliverers[d].is_active) -> "deliverer_not_found"
      [] OTHER -> "ok"

reassign_order_check(a, o, d) ==
    CASE ~admin_required(a) -> "forbidden"
      [] o = NULL \/ d = NULL -> "field_required"
      [] o \notin OrderIds -> "not_found"
      [] orders[o].status \notin {"accepted", "preparing", "ready"} -> "bad_status"
      [] d \notin DelivererIds -> "deliverer_not_found"
      [] ~(deliverers[d].exists /\ deliverers[d].is_active) -> "deliverer_not_found"
      [] ~deliverers[d].is_approved -> "not_approved"
      [] OTHER -> "ok"

\* An assignment that keeps the new line only.
append_note_replaces(notes, entry) == <<entry>>

\* order.notes += entry when notes is set, order.notes = entry when it is
\* empty: the entries there were stay in front of the new one.
append_note(notes, entry) == Append(notes, entry)

\* A line that puts the new deliverer where the previous one belongs.
ReassignNote_new_only(old, new) == [kind |-> "reassign", old |-> new, new |-> new]

\* One line of the audit trail kept in Order.notes.
ReassignNote(old, new) == [kind |-> "reassign", old |-> old, new |-> new]

reassign_order(a, o, d) ==
    IF reassign_order_check(a, o, d) = "ok"
    THEN /\ Len(orders[o].notes) < MaxNotes
         /\ orders' = [orders EXCEPT
               ![o].deliverer_id = d,
               ![o].updated_at = now,
               ![o].notes = append_note(@, ReassignNote(orders[o].deliverer_id, d))]
         /\ UNCHANGED <<delivery_requests, deliverers, stores, now, session, locations, tracking, platform, limiters, products>>
    ELSE UNCHANGED vars

\* ------------------------------------------------ admin.cancel_order_admin
cancel_order_admin_check(a, o) ==
    CASE ~ViewCallable("cancel_order_admin") -> "server_error"
      [] ~admin_required(a) -> "forbidden"
      [] o \notin OrderIds -> "not_found"
      [] orders[o].status \in {"delivered", "cancelled"} -> "bad_status"
      [] OTHER -> "ok"

cancel_order_admin(a, o) ==
    IF cancel_order_admin_check(a, o) = "ok"
    THEN /\ Len(orders[o].notes) < MaxNotes
         /\ orders' = [orders EXCEPT
               ![o].status = "cancelled",
               ![o].updated_at = now,
               ![o].notes = append_note(@, [kind |-> "cancel", old |-> NULL, new |-> NULL])]
         /\ UNCHANGED <<delivery_requests, deliverers, stores, now, session, locations, tracking, platform, limiters, products>>
    ELSE UNCHANGED vars

\* ----------------------------------------- admin.update_order_status_admin
update_order_status_admin_check(a, o, status) ==
    CASE ~ViewCallable("update_order_status_admin") -> "server_error"
      [] ~admin_required(a) -> "forbidden"
      [] status \notin OrderStatuses -> "bad_status"
      [] o \notin OrderIds -> "not_found"
      [] OTHER -> "ok"

update_order_status_admin(a, o, status) ==
    IF update_order_status_admin_check(a, o, status) = "ok"
    THEN /\ Len(orders[o].notes) < MaxNotes
         /\ orders' = [orders EXCEPT
               ![o].status = status,
               ![o].updated_at = now,
               ![o].notes = append_note(@, [kind |-> "status", old |-> NULL, new |-> NULL])]
         /\ UNCHANGED <<delivery_requests, deliverers, stores, now, session, locations, tracking, platform, limiters, products>>
    ELSE UNCHANGED vars

\* ------------------------------------------------- admin.delete_deliverer
\* The request carries a JSON body (the view reads data.get('reason')).
\* The row of a deleted deliverer, fields cleared.
Deleted ==
    [exists |-> FALSE, is_active |-> FALSE, is_online |-> FALSE,
     is_approved |-> FALSE, total_deliveries |-> 0]

\* A deletion that leaves the orders as they are.
delete_deliverer_orders_kept(d) == orders

\* pending_deliveries: the deliverer's orders in accepted .. delivering are
\* unbound and put back to 'pending'.  Deleting the user row then clears
\* the nullable deliverer_id of every other row that still refers to it
\* (relationship backrefs deliverer_orders and assigned_deliveries, no delete
\* cascade); Order.updated_at has onupdate=datetime.utcnow.
delete_deliverer_orders(d) ==
    [o \in OrderIds |->
        IF orders[o].deliverer_id # d THEN orders[o]
        ELSE IF orders[o].status \in {"accepted", "preparing", "ready", "delivering"}
        THEN [orders[o] EXCEPT !.deliverer_id = NULL, !.status = "pending",
                               !.updated_at = now]
        ELSE [orders[o] EXCEPT !.deliverer_id = NULL, !.updated_at = now]]

\* deliverer_locations.deliverer_id and order_tracking.deliverer_id are
\* nullable=False and reached from the user by the backrefs locations and
\* tracking_history (no delete cascade): with such rows the flush raises
\* IntegrityError and the view rolls back.
delete_deliverer_check(a, d) ==
    CASE deliverer_admin_check("delete_deliverer", a, d) # "ok" ->
            deliverer_admin_check("delete_deliverer", a, d)
      [] \E i \in 1..Len(locations) : locations[i].deliverer_id = d -> "server_error"
      [] \E i \in 1..Len(tracking) : tracking[i].deliverer_id = d -> "server_error"
      [] OTHER -> "ok"

delete_deliverer(a, d) ==
    IF delete_deliverer_check(a, d) = "ok"
    THEN /\ orders' = delete_deliverer_orders(d)
         /\ delivery_requests' =
               [r \in RequestIds |->
                   IF delivery_requests[r].deliverer_id = d
                   THEN [delivery_requests[r] EXCEPT !.deliverer_id = NULL]
                   ELSE delivery_requests[r]]
         /\ deliverers' = [deliverers EXCEPT ![d] = Deleted]
         /\ UNCHANGED <<stores, now, session, locations, tracking, platform, limiters, products>>
    ELSE UNCHANGED vars

\* ----------------------------------------------------- admin.delete_store
StoreOrders(s) == {o \in OrderIds : OrderStore(o) = s}

\* Deleting a store row makes the session clear store_id of the store's
\* orders and products (backrefs Store.orders, Store.products, no delete
\* cascade); both columns are nullable=False, so the flush raises
\* IntegrityError and the view rolls back whenever such rows exist.
delete_store_check(a, s) ==
    CASE ~ViewCallable("delete_store") -> "server_error"
      [] ~admin_required(a) -> "forbidden"
      [] s \notin StoreIds -> "not_found"
      [] ~stores[s].exists -> "not_found"
      [] StoreOrders(s) # {} \/ StoreHasProducts(s) -> "server_error"
      [] OTHER -> "ok"

delete_store(a, s) ==
    IF delete_store_check(a, s) = "ok"
    THEN /\ orders' = [o \in OrderIds |->
               IF OrderStore(o) = s /\ orders[o].status = "pending"
               THEN [orders[o] EXCEPT !.status = "cancelled", !.updated_at = now]
               ELSE orders[o]]
         /\ stores' = [stores EXCEPT ![s].exists = FALSE]
         /\ UNCHANGED <<delivery_requests, deliverers, now, session, locations, tracking, platform, limiters, products>>
    ELSE UNCHANGED vars

\* ------------------------------- admin.reject_store, admin.reactivate_store
\* The request carries a JSON body (the view reads data.get('reason')).
store_admin_check(view, a, s) ==
    CASE ~ViewCallable(view) -> "server_error"
      [] ~admin_required(a) -> "forbidden"
      [] s \notin StoreIds -> "not_found"
      [] ~stores[s].exists -> "not_found"
      [] OTHER -> "ok"

\* store.is_active = False; store.user.is_active = False
reject_store(a, s) ==
    IF store_admin_check("reject_store", a, s) = "ok"
    THEN /\ stores' = [stores EXCEPT ![s].is_active = FALSE]
         /\ UNCHANGED <<orders, delivery_requests, deliverers, now, session, locations,
                        tracking, platform, limiters, products>>
    ELSE UNCHANGED vars

\* store.is_active = True; store.user.is_active = True
reactivate_store(a, s) ==
    IF store_admin_check("reactivate_store", a, s) = "ok"
    THEN /\ stores' = [stores EXCEPT ![s].is_active = TRUE]
         /\ UNCHANGED <<orders, delivery_requests, deliverers, now, session, locations,
                        tracking, platform, limiters, products>>
    ELSE UNCHANGED vars

\* ------------------------------------------------------ admin.delete_user
\* user.store and user.deliverer_profile are backrefs of many-to-one
\* relationships, so they are lists: user.store.products raises
\* AttributeError and db.session.delete(user.deliverer_profile) raises
\* UnmappedInstanceError; the view rolls back.  The client of the model has
\* orders, whose client_id is nullable=False.
delete_user_check(a, u) ==
    CASE ~ViewCallable("delete_user") -> "server_error"
      [] ~admin_required(a) -> "forbidden"
      [] u \notin UserIds -> "not_found"
      [] ~UserExists(u) -> "not_found"
      [] user_type(u) = "admin" -> "forbidden"
      [] user_type(u) = "store" -> "server_error"
      [] user_type(u) = "deliverer" -> "server_error"
      [] user_type(u) = "client" /\ OrderIds # {} -> "server_error"
      [] OTHER -> "ok"

delete_user(a, u) ==
    IF delete_user_check(a, u) = "ok"
    THEN UNCHANGED vars      \* a client without orders: no row of the model changes
    ELSE UNCHANGED vars

\* ---------------------------------------------- admin.delete_user_account
\* Registered on the URL and method delete_user already serves, and defined
\* without the user_id the route passes.
delete_user_account_check(a, u) ==
    CASE ~ViewCallable("delete_user_account") -> "server_error"
      [] ~admin_required(a) -> "forbidden"
      [] u \notin UserIds -> "not_found"
      [] ~UserExists(u) -> "not_found"
      [] user_type(u) = "admin" -> "forbidden"
      [] \E o \in OrderIds :
            /\ orders[o].deliverer_id = u \/ u = ClientId
            /\ orders[o].status \in
                  {"pending", "accepted", "preparing", "ready", "delivering"} ->
            "active_orders"
      [] u \notin DelivererIds -> "server_error"
      [] OTHER -> "ok"

delete_user_account(a, u) ==
    IF delete_user_account_check(a, u) = "ok"
    THEN /\ orders' = [o \in OrderIds |->
               IF orders[o].deliverer_id = u
               THEN [orders[o] EXCEPT !.deliverer_id = NULL, !.updated_at = now]
               ELSE orders[o]]
         /\ delivery_requests' =
               [r \in RequestIds |->
                   IF delivery_requests[r].deliverer_id = u
                   THEN [delivery_requests[r] EXCEPT !.deliverer_id = NULL]
                   ELSE delivery_requests[r]]
         /\ deliverers' = [deliverers EXCEPT ![u] = Deleted]
         /\ UNCHANGED <<stores, now, session, locations, tracking, platform, limiters, products>>
    ELSE UNCHANGED vars

\* ------------------------------------------------ admin.bulk_user_action
BulkActions == {"suspend", "reactivate", "delete"}

\* user_ids of the body: lists of deliverers, with or without the admin.
UserLists == (SUBSET (DelivererIds \cup {AdminId})) \ {{}}

\* active_orders of the delete branch: the orders the user placed or is
\* bound to whose status is pending .. delivering.
bulk_active_orders(u) ==
    {o \in OrderIds :
        /\ orders[o].deliverer_id = u \/ u = ClientId
        /\ orders[o].status \in {"pending", "accepted", "preparing", "ready", "delivering"}}

\* The users of the list the delete branch removes: a user with active
\* orders is reported in errors and skipped.
bulk_deleted(user_ids) == {u \in user_ids : bulk_active_orders(u) = {}}

\* A deleted user that location or tracking rows still refer to makes the
\* flush raise IntegrityError (deliverer_id is nullable=False there); the
\* commit then fails and the view rolls everything back.
bulk_user_action_check(a, user_ids, action) ==
    CASE ~admin_required(a) -> "forbidden"
      [] action \notin BulkActions -> "invalid_action"
      [] user_ids = {} -> "invalid_list"
      [] \E u \in user_ids : ~UserExists(u) -> "not_found"
      [] \E u \in user_ids : user_type(u) = "admin" -> "forbidden"
      [] /\ action = "delete"
         /\ \E u \in bulk_deleted(user_ids) :
               \/ \E i \in 1..Len(locations) : locations[i].deliverer_id = u
               \/ \E i \in 1..Len(tracking) : tracking[i].deliverer_id = u -> "server_error"
      [] OTHER -> "ok"

\* suspend and reactivate write user.is_active; delete removes the profile
\* and the user of every listed deliverer without active orders, and the
\* deletion of the user clears the deliverer_id of the rows that refer to it
\* (backrefs deliverer_orders and assigned_deliveries).
bulk_user_action(a, user_ids, action) ==
    IF bulk_user_action_check(a, user_ids, action) = "ok"
    THEN /\ deliverers' = [d \in DelivererIds |->
               IF d \notin user_ids THEN deliverers[d]
               ELSE CASE action = "suspend" -> [deliverers[d] EXCEPT !.is_active = FALSE]
                      [] action = "reactivate" -> [deliverers[d] EXCEPT !.is_active = TRUE]
                      [] OTHER -> IF d \in bulk_deleted(user_ids) THEN Deleted
                                  ELSE deliverers[d]]
         /\ orders' = [o \in OrderIds |->
               IF action = "delete" /\ orders[o].deliverer_id \in bulk_deleted(user_ids)
               THEN [orders[o] EXCEPT !.deliverer_id = NULL, !.updated_at = now]
               ELSE orders[o]]
         /\ delivery_requests' = [r \in RequestIds |->
               IF action = "delete"
                  /\ delivery_requests[r].deliverer_id \in bulk_deleted(user_ids)
               THEN [delivery_requests[r] EXCEPT !.deliverer_id = NULL]
               ELSE delivery_requests[r]]
         /\ UNCHANGED <<stores, now, session, locations, tracking, platform, limiters, products>>
    ELSE UNCHANGED vars

\* ------------------------------------ geolocation.update_deliverer_location
\* Coordinates in whole degrees; the trigonometric tables below cover them.
Latitudes == {0, 30, 60}
Longitudes == {0, 60}
Points == [latitude : Latitudes, longitude : Longitudes]

\* A body with both coordinates, one without latitude, one whose latitude
\* float() cannot read.
Coordinates(pt) ==
    [kind |-> "coordinates", latitude |-> pt.latitude, longitude |-> pt.longitude]
Origin == Coordinates([latitude |-> 0, longitude |-> 0])
BadBodies ==
    {[kind |-> k, latitude |-> 0, longitude |-> 0] : k \in {"no_latitude", "not_a_number"}}
LocationBodies == {Origin} \cup BadBodies

update_deliverer_location_check(u, body) ==
    CASE ~UserExists(u) \/ user_type(u) # "deliverer" -> "forbidden"
      [] ~deliverers[u].is_online -> "must_be_online"
      [] body.kind = "no_latitude" -> "field_required"
      [] body.kind = "not_a_number" -> "server_error"      \* float() raises, rollback
      [] OTHER -> "ok"

\* An update that deactivates nothing.
deactivate_locations_none(d, seen) == locations

\* DelivererLocation.query.filter_by(deliverer_id=user_id, is_active=True)
\*     .update({'is_active': False}), over the first `seen` rows of the table
deactivate_locations(d, seen) ==
    [i \in 1..Len(locations) |->
        IF i <= seen /\ locations[i].deliverer_id = d
        THEN [locations[i] EXCEPT !.is_active = FALSE]
        ELSE locations[i]]

\* DelivererLocation(deliverer_id=user_id, ...): is_active defaults to True
new_location(d, body) ==
    [deliverer_id |-> d, latitude |-> body.latitude, longitude |-> body.longitude,
     is_active |-> TRUE, created_at |-> now]

\* A query that takes every order of the deliverer, whatever its status.
active_orders_any_status(d) == {o \in OrderIds : orders[o].deliverer_id = d}

\* Order.query.filter_by(deliverer_id=user_id, status='delivering').all()
active_orders(d) ==
    {o \in OrderIds : orders[o].deliverer_id = d /\ orders[o].status = "delivering"}

\* The orders in which a query without ORDER BY may return the rows of S.
RowOrders(S) ==
    {p \in [1..Cardinality(S) -> S] : \A x \in S : \E i \in 1..Cardinality(S) : p[i] = x}

\* OrderTracking(order_id=order.id, deliverer_id=user_id, status='in_transit', ...)
new_tracking(o, d) ==
    [order_id |-> o, deliverer_id |-> d, status |-> "in_transit", created_at |-> now]

\* A rollback that keeps the statements the failed call had issued.
rollback_keeps(uncommitted) == uncommitted

\* db.session.rollback() in the except branch: the table is as it was
\* committed, whatever the failed call had issued.
rollback(uncommitted) == locations

\* The location table after a call that did not succeed.  A body whose
\* coordinates float() cannot parse fails after the bulk UPDATE was issued;
\* every other refusal returns before it.
update_deliverer_location_failed(u, body) ==
    IF update_deliverer_location_check(u, body) = "server_error"
    THEN rollback(deactivate_locations(u, Len(locations)))
    ELSE locations

update_deliverer_location(u, body) ==
    IF update_deliverer_location_check(u, body) = "ok"
    THEN /\ Len(locations) < MaxLocations
         /\ locations' = Append(deactivate_locations(u, Len(locations)), new_location(u, body))
         /\ \E p \in RowOrders(active_orders(u)) :
               tracking' = tracking \o [i \in 1..Len(p) |-> new_tracking(p[i], u)]
         /\ UNCHANGED <<orders, delivery_requests, deliverers, stores, now, session, platform, limiters, products>>
    ELSE /\ locations' = update_deliverer_location_failed(u, body)
         /\ UNCHANGED <<orders, delivery_requests, deliverers, stores, now, session, tracking, platform, limiters, products>>

\* ------------------------------------------- geolocation.calculate_distance
\* Floats are fixed-point numbers in units of 1/Scale; angles are whole
\* degrees and distances thousandths of a km.
Scale == 10000
EarthRadius == 6371

\* round-to-nearest product, the same magnitude for either sign
Mul(x, y) ==
    LET p == x * y
    IN  IF p >= 0 THEN (p + Scale \div 2) \div Scale ELSE -((-p + Scale \div 2) \div Scale)

\* math.sin(math.radians(deg) / 2) for the differences of two coordinates
SinHalfTable == [d \in {0, 30, 60} |-> CASE d = 0 -> 0 [] d = 30 -> 2588 [] d = 60 -> 5000]
SinHalf(deg) == IF deg < 0 THEN -SinHalfTable[-deg] ELSE SinHalfTable[deg]

\* math.cos(math.radians(deg))
CosTable == [d \in {0, 30, 60} |-> CASE d = 0 -> 10000 [] d = 30 -> 8660 [] d = 60 -> 5000]
Cos(deg) == IF deg < 0 THEN CosTable[-deg] ELSE CosTable[deg]

\* 2 * atan2(sqrt(a), sqrt(1 - a)) in degrees, to the 15 degrees below:
\* the angle c with (1 - cos c) / 2 = a
HaversineTable ==
    [c \in {15 * k : k \in 0..12} |->
        CASE c = 0 -> 0      [] c = 15 -> 170    [] c = 30 -> 670   [] c = 45 -> 1464
          [] c = 60 -> 2500  [] c = 75 -> 3706   [] c = 90 -> 5000  [] c = 105 -> 6294
          [] c = 120 -> 7500 [] c = 135 -> 8536  [] c = 150 -> 9330 [] c = 165 -> 9830
          [] c = 180 -> 10000]
CentralAngle(a) ==
    CHOOSE c \in DOMAIN HaversineTable :
        /\ HaversineTable[c] <= a
        /\ \A e \in DOMAIN HaversineTable : HaversineTable[e] <= a => e <= c

\* math.radians for the central angle, in units of 1/100000
Radians(deg) == (deg * 31416) \div 18

\* A haversine that takes the cosine of the first latitude twice.
calculate_distance_one_latitude(lat1, lon1, lat2, lon2) ==
    LET dlat == lat2 - lat1
        dlon == lon2 - lon1
        a == Mul(SinHalf(dlat), SinHalf(dlat))
               + Mul(Mul(Mul(Cos(lat1), Cos(lat1)), SinHalf(dlon)), SinHalf(dlon))
    IN  (EarthRadius * Radians(CentralAngle(a))) \div 100

calculate_distance(lat1, lon1, lat2, lon2) ==
    LET dlat == lat2 - lat1
        dlon == lon2 - lon1
        a == Mul(SinHalf(dlat), SinHalf(dlat))
               + Mul(Mul(Mul(Cos(lat1), Cos(lat2)), SinHalf(dlon)), SinHalf(dlon))
    IN  (EarthRadius * Radians(CentralAngle(a))) \div 100

\* round(distance, 2): to the hundredth of a km
Round2(distance) == ((distance + 5) \div 10) * 10

\* --------------------------------------- geolocation.estimate_arrival_time
\* One step of the clock is TickMinutes minutes; times are minutes.
TickMinutes == 20
utcnow == now * TickMinutes

\* An estimate without the test for distances that are not positive.
estimate_arrival_time_unguarded(distance_km, avg_speed_kmh) ==
    utcnow + (distance_km * 60) \div (avg_speed_kmh * 1000)

\* distance_km in thousandths of a km; the result in minutes, rounded down
estimate_arrival_time(distance_km, avg_speed_kmh) ==
    IF distance_km <= 0
    THEN utcnow
    ELSE utcnow + (distance_km * 60) \div (avg_speed_kmh * 1000)

\* -------------------------------------- geolocation.get_nearby_deliverers
\* recent_time = utcnow() - timedelta(minutes=10)
FreshMinutes == 10
recent_time == utcnow - FreshMinutes

\* A join that takes the active rows of any age.
nearby_locations_any_age ==
    {i \in 1..Len(locations) :
        /\ locations[i].is_active
        /\ deliverers[locations[i].deliverer_id].exists
        /\ deliverers[locations[i].deliverer_id].is_online
        /\ deliverers[locations[i].deliverer_id].is_approved}

\* DelivererLocation joined with Deliverer: active, recent, online, approved
nearby_locations ==
    {i \in 1..Len(locations) :
        /\ locations[i].is_active
        /\ locations[i].created_at * TickMinutes >= recent_time
        /\ deliverers[locations[i].deliverer_id].exists
        /\ deliverers[locations[i].deliverer_id].is_online
        /\ deliverers[locations[i].deliverer_id].is_approved}

\* The entry of nearby_deliverers made of row i.
deliverer_data(i, latitude, longitude) ==
    LET distance == calculate_distance(latitude, longitude,
                                       locations[i].latitude, locations[i].longitude)
    IN  [deliverer_id |-> locations[i].deliverer_id,
         distance_km |-> Round2(distance),
         within |-> distance,
         estimated_arrival |-> estimate_arrival_time(distance, 25)]

\* list.append in the order of the entries already there; sort() is stable
RECURSIVE sort_by_distance_km(_)
sort_by_distance_km(entries) ==
    IF entries = <<>> THEN <<>>
    ELSE LET x == entries[Len(entries)]
             front == sort_by_distance_km(SubSeq(entries, 1, Len(entries) - 1))
             k == Cardinality({i \in 1..Len(front) : front[i].distance_km <= x.distance_km})
         IN  SubSeq(front, 1, k) \o <<x>> \o SubSeq(front, k + 1, Len(front))

get_nearby_deliverers_check(u) ==
    IF ~UserExists(u) \/ user_type(u) \notin {"store", "admin"} THEN "forbidden" ELSE "ok"

\* The lists get_nearby_deliverers may answer with: the rows come from the
\* query in any order.
get_nearby_deliverers(u, latitude, longitude, radius_km) ==
    IF get_nearby_deliverers_check(u) = "ok"
    THEN {sort_by_distance_km(
              SelectSeq([i \in 1..Len(p) |-> deliverer_data(p[i], latitude, longitude)],
                        LAMBDA e : e.within <= radius_km)) :
            p \in RowOrders(nearby_locations)}
    ELSE {}

\* ------------------------------------------------ geolocation.track_order
\* Every order of the model is the one client's.
track_order_check(u, o) ==
    CASE o \notin OrderIds -> "not_found"
      [] ~UserExists(u) -> "server_error"            \* user is None
      [] user_type(u) = "client" -> "ok"
      [] user_type(u) = "store" /\ UserExists(u) /\ OrderStore(o) = u - 10 -> "ok"
      [] user_type(u) = "deliverer" /\ orders[o].deliverer_id = u -> "ok"
      [] user_type(u) = "admin" -> "ok"
      [] OTHER -> "forbidden"

\* DelivererLocation.query.filter_by(deliverer_id=order.deliverer_id,
\*     is_active=True).first(): the values current_location may take
current_location(o) ==
    IF orders[o].deliverer_id = NULL
    THEN {<<>>}
    ELSE LET active == {i \in 1..Len(locations) :
                           /\ locations[i].deliverer_id = orders[o].deliverer_id
                           /\ locations[i].is_active}
         IN  IF active = {} THEN {<<>>} ELSE {<<locations[i]>> : i \in active}

track_order(u, o) ==
    IF track_order_check(u, o) = "ok" THEN current_location(o) ELSE {}

\* ----------------------------------------------- admin: platform settings
\* The keys the fee and limit calculations read.
SettingKeys ==
    {"default_delivery_fee_per_km", "minimum_delivery_fee",
     "maximum_delivery_distance", "default_minimum_order_value"}

\* The numbers an admin writes into a setting, the numbers a city carries
\* and the distances a fee is asked for.
SettingValues == {-1, 5}
CityValues == {-1, 3}
Distances == {-10, 5, 10, 12}

CityIds == 1..NumCities
NoCity == NumCities + 1
CityArgs == CityIds \cup {NULL, NoCity}

\* No row for the key: initialize_default_settings is never called.
NoSetting == [set |-> FALSE, value |-> 0]
NoCityRow ==
    [exists |-> FALSE, is_active |-> FALSE, delivery_fee_per_km |-> 0,
     minimum_order_value |-> 0]
NoResponse == [op |-> "none"]

InitPlatform ==
    /\ platform_settings = [k \in SettingKeys |-> NoSetting]
    /\ allowed_cities = [c \in CityIds |-> NoCityRow]
    /\ response = NoResponse

get_platform_setting(key, default_value) ==
    IF platform_settings[key].set THEN platform_settings[key].value ELSE default_value

\* setting.setting_value = str(value), or a new row with it
update_platform_setting(key, value) ==
    [platform_settings EXCEPT ![key] = [set |-> TRUE, value |-> value]]

\* POST /admin/settings: every key of the body is stored as it comes.
update_platform_settings(a, key, value) ==
    IF admin_required(a)
    THEN /\ platform_settings' = update_platform_setting(key, value)
         /\ UNCHANGED <<orders, delivery_requests, deliverers, stores, now, session,
                        locations, tracking, allowed_cities, response,
                        limiters, products>>
    ELSE UNCHANGED vars

\* PUT /admin/platform/fees: the bounds each key is held to.
update_platform_fees_check(a, key, value) ==
    CASE ~admin_required(a) -> "forbidden"
      [] key = "maximum_delivery_distance" /\ value <= 0 -> "bad_value"
      [] key # "maximum_delivery_distance" /\ value < 0 -> "bad_value"
      [] OTHER -> "ok"

update_platform_fees(a, key, value) ==
    IF update_platform_fees_check(a, key, value) = "ok"
    THEN /\ platform_settings' = update_platform_setting(key, value)
         /\ UNCHANGED <<orders, delivery_requests, deliverers, stores, now, session,
                        locations, tracking, allowed_cities, response,
                        limiters, products>>
    ELSE UNCHANGED vars

\* ------------------------------------------------- admin: allowed cities
\* The bodies of POST and PUT /admin/cities: one optional field each.
CityBodies ==
    [field : {"delivery_fee_per_km", "minimum_order_value"}, value : CityValues, flag : {TRUE}]
        \cup [field : {"is_active"}, value : {0}, flag : BOOLEAN]
        \cup [field : {"name"}, value : {0}, flag : {TRUE}]

\* data.get(field, default)
CityField(body, field, default) == IF body.field = field THEN body.value ELSE default

add_allowed_city_check(a, c) ==
    CASE ~admin_required(a) -> "forbidden"
      [] c \notin CityIds -> "field_required"
      [] allowed_cities[c].exists -> "already_registered"
      [] OTHER -> "ok"

add_allowed_city(a, c, body) ==
    IF add_allowed_city_check(a, c) = "ok"
    THEN /\ allowed_cities' = [allowed_cities EXCEPT ![c] =
               [exists |-> TRUE,
                is_active |-> IF body.field = "is_active" THEN body.flag ELSE TRUE,
                delivery_fee_per_km |-> CityField(body, "delivery_fee_per_km", 2),
                minimum_order_value |-> CityField(body, "minimum_order_value", 30)]]
         /\ UNCHANGED <<orders, delivery_requests, deliverers, stores, now, session,
                        locations, tracking, platform_settings, response,
                        limiters, products>>
    ELSE UNCHANGED vars

update_allowed_city_check(a, c) ==
    CASE ~admin_required(a) -> "forbidden"
      [] c \notin CityIds -> "not_found"
      [] ~allowed_cities[c].exists -> "not_found"
      [] OTHER -> "ok"

update_allowed_city(a, c, body) ==
    IF update_allowed_city_check(a, c) = "ok"
    THEN /\ allowed_cities' = [allowed_cities EXCEPT ![c] =
               [exists |-> TRUE,
                is_active |-> IF body.field = "is_active" THEN body.flag ELSE @.is_active,
                delivery_fee_per_km |->
                    CityField(body, "delivery_fee_per_km", @.delivery_fee_per_km),
                minimum_order_value |->
                    CityField(body, "minimum_order_value", @.minimum_order_value)]]
         /\ UNCHANGED <<orders, delivery_requests, deliverers, stores, now, session,
                        locations, tracking, platform_settings, response,
                        limiters, products>>
    ELSE UNCHANGED vars

delete_allowed_city(a, c) ==
    IF update_allowed_city_check(a, c) = "ok"
    THEN /\ allowed_cities' = [allowed_cities EXCEPT ![c] = NoCityRow]
         /\ UNCHANGED <<orders, delivery_requests, deliverers, stores, now, session,
                        locations, tracking, platform_settings, response,
                        limiters, products>>
    ELSE UNCHANGED vars

\* --------------------------------------- admin.calculate_delivery_fee
\* The body's distance_km: a number, absent, or text float() cannot read.
DistanceArgs ==
    [kind : {"number"}, value : Distances] \cup [kind : {"missing", "text"}, value : {0}]

\* A rate taken from whatever city row the id finds.
fee_per_km_any_city(city_id) ==
    IF city_id \in CityIds /\ allowed_cities[city_id].exists
    THEN allowed_cities[city_id].delivery_fee_per_km
    ELSE get_platform_setting("default_delivery_fee_per_km", 2)

\* if city_id: city = AllowedCity.query.get(city_id); city and city.is_active
fee_per_km(city_id) ==
    IF /\ city_id # NULL
       /\ city_id \in CityIds
       /\ allowed_cities[city_id].exists /\ allowed_cities[city_id].is_active
    THEN allowed_cities[city_id].delivery_fee_per_km
    ELSE get_platform_setting("default_delivery_fee_per_km", 2)

Max(x, y) == IF x >= y THEN x ELSE y

\* A bound that refuses the maximum distance itself.
distance_exceeded_at_maximum(distance) ==
    distance >= get_platform_setting("maximum_delivery_distance", 10)

\* if distance > maximum_distance
distance_exceeded(distance) ==
    distance > get_platform_setting("maximum_delivery_distance", 10)

\* What the view answers to the request args; fee holds final_delivery_fee
\* when there is one.
calculate_delivery_fee_response(arg, city_id) ==
    CASE arg.kind = "missing" ->
            [op |-> "calculate_delivery_fee", args |-> <<arg, city_id>>, status |-> 400,
             error |-> "distance_required",
             fee_per_km |-> <<>>, fee |-> <<>>]
      [] arg.kind = "text" ->
            [op |-> "calculate_delivery_fee", args |-> <<arg, city_id>>, status |-> 400,
             error |-> "invalid_distance", fee_per_km |-> <<>>, fee |-> <<>>]
      [] arg.kind = "number" /\ distance_exceeded(arg.value) ->
            [op |-> "calculate_delivery_fee", args |-> <<arg, city_id>>, status |-> 400,
             error |-> "distance_exceeded", fee_per_km |-> <<>>, fee |-> <<>>]
      [] OTHER ->
            [op |-> "calculate_delivery_fee", args |-> <<arg, city_id>>, status |-> 200, error |-> "",
             fee_per_km |-> <<fee_per_km(city_id)>>,
             fee |-> <<Max(arg.value * fee_per_km(city_id),
                           get_platform_setting("minimum_delivery_fee", 5))>>]

calculate_delivery_fee(arg, city_id) ==
    /\ response' = calculate_delivery_fee_response(arg, city_id)
    /\ UNCHANGED <<orders, delivery_requests, deliverers, stores, now, session,
                   locations, tracking, platform_settings, allowed_cities,
                        limiters, products>>

\* ------------------------------------------------- admin.get_order_limits
minimum_order_value(city_id) ==
    IF /\ city_id # NULL
       /\ city_id \in CityIds
       /\ allowed_cities[city_id].exists /\ allowed_cities[city_id].is_active
    THEN allowed_cities[city_id].minimum_order_value
    ELSE get_platform_setting("default_minimum_order_value", 30)

get_order_limits_response(city_id) ==
    [op |-> "get_order_limits", args |-> <<city_id>>, status |-> 200, error |-> "",
     minimum_order_value |-> minimum_order_value(city_id),
     maximum_delivery_distance |-> get_platform_setting("maximum_delivery_distance", 10)]

get_order_limits(city_id) ==
    /\ response' = get_order_limits_response(city_id)
    /\ UNCHANGED <<orders, delivery_requests, deliverers, stores, now, session,
                   locations, tracking, platform_settings, allowed_cities,
                        limiters, products>>

\* ---------------------------------------------------- orders.create_order
\* The products table holds the active products of store 1.
ProductIds == 1..NumProducts
NoProduct == NumProducts + 1               \* an id no product row has
ProductStore(p) == 1

InitProducts == products = [p \in ProductIds |-> [stock_quantity |-> InitStock]]

\* generate_order_number draws six random digits: a small pool of numbers.
OrderNumbers == 1..NumOrderNumbers

\* What the body carries: a store and a list of items.
Items == [product_id : ProductIds \cup {NoProduct}, quantity : 0..MaxQuantity]
ItemLists == UNION {[1..n -> Items] : n \in 0..MaxItems}
OrderBodies == [store_id : StoreIds, items : ItemLists]

\* One pass of the loop over data["items"]: quantity, product, stock.
item_check(item, store_id) ==
    CASE item.quantity <= 0 -> "invalid_quantity"
      [] item.product_id \notin ProductIds -> "product_not_found"
      [] ProductStore(item.product_id) # store_id -> "product_not_found"
      [] products[item.product_id].stock_quantity < item.quantity -> "insufficient_stock"
      [] OTHER -> "ok"

\* The loop returns at the first item it refuses; every item is compared
\* with the stock the product row holds when the loop runs.
RECURSIVE items_check(_, _)
items_check(items, store_id) ==
    IF items = <<>> THEN "ok"
    ELSE IF item_check(Head(items), store_id) # "ok"
         THEN item_check(Head(items), store_id)
         ELSE items_check(Tail(items), store_id)

create_order_check(u, body) ==
    CASE ~UserExists(u) \/ user_type(u) # "client" -> "forbidden"
      [] ~(stores[body.store_id].exists /\ stores[body.store_id].is_active) ->
            "store_not_found"
      [] body.items = <<>> -> "items_required"
      [] OTHER -> items_check(body.items, body.store_id)

\* The quantity the items of one order hold of product p.
RECURSIVE ordered_quantity(_, _)
ordered_quantity(items, p) ==
    IF items = <<>> THEN 0
    ELSE (IF Head(items).product_id = p THEN Head(items).quantity ELSE 0)
            + ordered_quantity(Tail(items), p)

\* item_data["product"].stock_quantity -= item_data["quantity"], once per
\* item, on the product rows as the request loaded them; the flush writes
\* the resulting value of every product the order names.
create_order_stock(items, loaded) ==
    [p \in ProductIds |->
        IF \E i \in 1..Len(items) : items[i].product_id = p
        THEN [products[p] EXCEPT
                !.stock_quantity = loaded[p].stock_quantity - ordered_quantity(items, p)]
        ELSE products[p]]

\* while Order.query.filter_by(order_number=order_number).first(): ...
order_number_taken(n) == \E o \in OrderIds : orders[o].order_number = n

\* A column without the constraint.
unique_violation_never(n) == FALSE

\* order_number is unique=True: the INSERT of a number a committed order
\* holds raises IntegrityError.
unique_violation(n) == \E o \in OrderIds : orders[o].order_number = n

\* Order(client_id=user_id, ..., order_number=order_number): status takes
\* the column default 'pending', deliverer_id stays NULL.
new_order(order_number, items) ==
    [status |-> "pending", deliverer_id |-> NULL, notes |-> <<>>, updated_at |-> now,
     created_at |-> now, order_number |-> order_number, items |-> items]

\* ------------------------------------------------- security_improvements
\* request_counts and failed_login_attempts are module-level defaultdicts:
\* every gunicorn worker process has its own copy, and a key that was never
\* used holds an empty deque.  Times are minutes.
Addresses == {1}                           \* request.remote_addr
ip_key(ip) == [per |-> "ip", id |-> ip]    \* f"ip_{request.remote_addr}"
user_key(u) == [per |-> "user", id |-> u]  \* f"user_{get_jwt_identity()}"
LimiterKeys == {ip_key(ip) : ip \in Addresses} \cup {user_key(u) : u \in UserIds}


InitLimiters ==
    /\ request_counts = [w \in WorkerIds |-> [k \in LimiterKeys |-> <<>>]]
    /\ failed_login_attempts = [w \in WorkerIds |-> [ip \in Addresses |-> <<>>]]
    /\ security_log = <<>>

\* while queue and queue[0] < window_start: queue.popleft()
RECURSIVE popleft_old(_, _)
popleft_old(queue, window_start) ==
    IF queue # <<>> /\ Head(queue) < window_start
    THEN popleft_old(Tail(queue), window_start)
    ELSE queue

\* SecurityLogger.log_security_event: the printed entry.
log_entry(event_type, u, ip) ==
    [timestamp |-> utcnow, event_type |-> event_type, user_id |-> u, ip_address |-> ip]

\* rate_limit: the key's queue after the old requests were removed, the
\* answer of the decorator, and the dictionary it leaves.
rate_limit_queue(w, key, window_minutes) ==
    popleft_old(request_counts[w][key], utcnow - window_minutes)

rate_limit_check(w, key, max_requests, window_minutes) ==
    IF Len(rate_limit_queue(w, key, window_minutes)) >= max_requests
    THEN "rate_limit_exceeded"
    ELSE "ok"

rate_limit(w, key, max_requests, window_minutes) ==
    [request_counts EXCEPT ![w][key] =
        IF rate_limit_check(w, key, max_requests, window_minutes) = "ok"
        THEN Append(rate_limit_queue(w, key, window_minutes), utcnow)
        ELSE rate_limit_queue(w, key, window_minutes)]

\* POST /orders is limited with rate_limit(max_requests=5, window_minutes=1,
\* per="user").
create_order_max_requests == 5
create_order_window_minutes == 1

\* POST /orders of a caller who is not a client, served by process w: the
\* limiter, then the view, which logs the refusal and answers 403.
create_order_refused(w, u) ==
    /\ user_type(u) # "client"
    /\ Len(security_log) < MaxLog
    /\ request_counts' = rate_limit(w, user_key(u), create_order_max_requests,
                                    create_order_window_minutes)
    /\ security_log' =
          IF rate_limit_check(w, user_key(u), create_order_max_requests,
                              create_order_window_minutes) = "ok"
          THEN Append(security_log, log_entry("unauthorized_access", u, NULL))
          ELSE security_log
    /\ UNCHANGED <<orders, delivery_requests, deliverers, stores, now, session, locations,
                   tracking, platform, failed_login_attempts, products>>

\* POST /auth/login is wrapped in login_attempt_limiter(max_attempts=5,
\* lockout_minutes=15) and rate_limit(max_requests=20, window_minutes=5).
login_max_attempts == 5
login_lockout_minutes == 15
login_max_requests == 20
login_window_minutes == 5

\* What the request carries: the e-mail and password of an active client, a
\* wrong password, or an e-mail that validate_email refuses.
Credentials == {"right_password", "wrong_password", "invalid_email"}

\* The value the login view returns: every return statement of the view is
\* a pair (jsonify(...), status), a tuple.
login(credentials) ==
    CASE credentials = "invalid_email" ->
            [kind |-> "tuple", status |-> 400, event_type |-> "invalid_email_login"]
      [] credentials = "wrong_password" ->
            [kind |-> "tuple", status |-> 401, event_type |-> "failed_login_attempt"]
      [] OTHER ->
            [kind |-> "tuple", status |-> 200, event_type |-> "successful_login"]

\* hasattr(result, 'status_code'): a Response has the attribute, a tuple has
\* not.
has_status_code(result) == result.kind = "Response"

\* login_attempt_limiter up to the call of the wrapped view.
failed_queue(w, ip) ==
    popleft_old(failed_login_attempts[w][ip], utcnow - login_lockout_minutes)

login_attempt_limiter_check(w, ip) ==
    IF Len(failed_queue(w, ip)) >= login_max_attempts THEN "locked" ELSE "ok"

\* The queue of the address after the wrapped view returned result.
record_attempt(queue, result) ==
    IF has_status_code(result) /\ result.status \in {400, 401}
    THEN Append(queue, utcnow)
    ELSE IF has_status_code(result) /\ result.status = 200
         THEN <<>>
         ELSE queue

\* POST /auth/login from address ip, served by process w.
login_route(w, ip, credentials) ==
    /\ Len(security_log) < MaxLog
    /\ IF login_attempt_limiter_check(w, ip) = "locked"
       THEN /\ failed_login_attempts' =
                    [failed_login_attempts EXCEPT ![w][ip] = failed_queue(w, ip)]
            /\ UNCHANGED <<request_counts, security_log>>
       ELSE /\ request_counts' = rate_limit(w, ip_key(ip), login_max_requests,
                                            login_window_minutes)
            /\ IF rate_limit_check(w, ip_key(ip), login_max_requests,
                                   login_window_minutes) = "ok"
               THEN /\ security_log' = Append(security_log,
                            log_entry(login(credentials).event_type, NULL, ip))
                    /\ failed_login_attempts' = [failed_login_attempts EXCEPT
                            ![w][ip] = record_attempt(failed_queue(w, ip), login(credentials))]
               ELSE /\ UNCHANGED security_log
                    /\ failed_login_attempts' = [failed_login_attempts EXCEPT
                            ![w][ip] = record_attempt(failed_queue(w, ip),
                                [kind |-> "tuple", status |-> 429, event_type |-> ""])]
    /\ UNCHANGED <<orders, delivery_requests, deliverers, stores, now, session, locations,
                   tracking, platform, products>>

\* ------------------------------------------------------------------ clock
Tick ==
    /\ now < MaxClock
    /\ now' = now + 1
    /\ UNCHANGED <<orders, delivery_requests, deliverers, stores, session, locations, tracking, platform, limiters, products>>

\* ------------------------------------------------------------------- Init
Init ==
    /\ orders = [o \in 1..NumOrders |->
                    [status |-> "pending", deliverer_id |-> NULL,
                     notes |-> <<>>, updated_at |-> 0, created_at |-> 0]]
    /\ delivery_requests = [r \in 1..NumRequests |->
                    [status |-> "pending", deliverer_id |-> NULL, created_at |-> 0]]
    /\ deliverers = [d \in DelivererIds |->
                    [exists |-> TRUE, is_active |-> TRUE, is_online |-> FALSE,
                     is_approved |-> FALSE, total_deliveries |-> 0]]
    /\ stores = [s \in StoreIds |-> [exists |-> TRUE, is_active |-> TRUE]]
    /\ now = 0
    /\ session = [w \in WorkerIds |-> Idle]
    /\ locations = <<>>
    /\ tracking = <<>>
    /\ InitPlatform
    /\ InitLimiters
    /\ InitProducts

\* What a request may carry.
Callers == UserIds
OrderArgs == OrderIds \cup {NoOrder}
RequestArgs == RequestIds \cup {NoRequest}
StatusArgs == OrderStatuses \cup {""}
Admins == {AdminId, ClientId}

Next ==
    \/ \E u \in Callers, o \in OrderArgs, raw \in StatusArgs : update_order_status(u, o, raw)
    \/ \E u \in Callers, o \in OrderArgs : accept_delivery(u, o)
    \/ \E u \in Callers, r \in RequestArgs : accept_delivery_request(u, r)
    \/ \E u \in Callers, r \in RequestArgs, raw \in RequestStatuses \cup {""} :
          update_delivery_request_status(u, r, raw)
    \/ \E u \in Callers : toggle_online(u)
    \/ \E a \in Admins, d \in DelivererIds : approve_deliverer(a, d)
    \/ \E a \in Admins, d \in DelivererIds : reject_deliverer(a, d)
    \/ \E a \in Admins, d \in DelivererIds : reactivate_deliverer(a, d)
    \/ \E a \in Admins, o \in OrderArgs, d \in DelivererIds \cup {NULL, ClientId} :
          reassign_order(a, o, d)
    \/ \E a \in Admins, o \in OrderArgs : cancel_order_admin(a, o)
    \/ \E a \in Admins, o \in OrderArgs, s \in OrderStatuses : update_order_status_admin(a, o, s)
    \/ \E a \in Admins, d \in DelivererIds : delete_deliverer(a, d)
    \/ \E a \in Admins, s \in StoreIds : delete_store(a, s)
    \/ \E a \in Admins, u \in UserIds : delete_user(a, u)
    \/ \E a \in Admins, u \in UserIds : delete_user_account(a, u)
    \/ Tick

Spec == Init /\ [][Next]_vars

\* ------------------------------------------- two requests in flight at once
\* gunicorn runs `workers` sync processes, each with its own database session.
\* A view loads the row and checks it (begin), and the UPDATE it then flushes
\* is keyed by the primary key alone (commit): the other worker may commit
\* between the two steps.
Pending(op, u, o, arg) == [op |-> op, user |-> u, target |-> o, arg |-> arg]

accept_delivery_begin(w, u, o) ==
    IF session[w] = Idle /\ accept_delivery_check(u, o) = "ok"
    THEN /\ session' = [session EXCEPT ![w] = Pending("accept_delivery", u, o, "")]
         /\ UNCHANGED <<orders, delivery_requests, deliverers, stores, now, locations, tracking, platform, limiters, products>>
    ELSE UNCHANGED vars

accept_delivery_commit(w) ==
    /\ session[w].op = "accept_delivery"
    /\ orders' = accept_delivery_write(session[w].user, session[w].target)
    /\ session' = [session EXCEPT ![w] = Idle]
    /\ UNCHANGED <<delivery_requests, deliverers, stores, now, locations, tracking, platform, limiters, products>>

update_order_status_begin(w, u, o, raw) ==
    IF session[w] = Idle /\ update_order_status_check(u, o, raw) = "ok"
    THEN /\ session' = [session EXCEPT
               ![w] = Pending("update_order_status", u, o, sanitize_string(raw))]
         /\ UNCHANGED <<orders, delivery_requests, deliverers, stores, now, locations, tracking, platform, limiters, products>>
    ELSE UNCHANGED vars

update_order_status_commit(w) ==
    /\ session[w].op = "update_order_status"
    /\ orders' = update_order_status_write(session[w].target, session[w].arg)
    /\ session' = [session EXCEPT ![w] = Idle]
    /\ UNCHANGED <<delivery_requests, deliverers, stores, now, locations, tracking, platform, limiters, products>>

\* Both deliverers have been approved and have gone online.
InitRace ==
    /\ orders = [o \in 1..NumOrders |->
                    [status |-> "pending", deliverer_id |-> NULL,
                     notes |-> <<>>, updated_at |-> 0, created_at |-> 0]]
    /\ delivery_requests = [r \in 1..NumRequests |->
                    [status |-> "pending", deliverer_id |-> NULL, created_at |-> 0]]
    /\ deliverers = [d \in DelivererIds |->
                    [exists |-> TRUE, is_active |-> TRUE, is_online |-> TRUE,
                     is_approved |-> TRUE, total_deliveries |-> 0]]
    /\ stores = [s \in StoreIds |-> [exists |-> TRUE, is_active |-> TRUE]]
    /\ now = 0
    /\ session = [w \in WorkerIds |-> Idle]
    /\ locations = <<>>
    /\ tracking = <<>>
    /\ InitPlatform
    /\ InitLimiters
    /\ InitProducts

NextRace ==
    \/ \E w \in WorkerIds, u \in Callers, o \in OrderArgs : accept_delivery_begin(w, u, o)
    \/ \E w \in WorkerIds : accept_delivery_commit(w)
    \/ \E w \in WorkerIds, u \in Callers, o \in OrderArgs, raw \in StatusArgs :
          update_order_status_begin(w, u, o, raw)
    \/ \E w \in WorkerIds : update_order_status_commit(w)

SpecRace == InitRace /\ [][NextRace]_vars

\* ------------------------------------------- listings of the unclaimed jobs
\* A filter that asks for the status alone.
available_orders_any_deliverer == {o \in OrderIds : orders[o].status = "ready"}

\* Order.query.filter_by(status="ready", deliverer_id=None)
available_orders ==
    {o \in OrderIds : orders[o].status = "ready" /\ orders[o].deliverer_id = NULL}

\* DeliveryRequest.query.filter_by(status="pending", deliverer_id=None)
available_delivery_requests ==
    {r \in RequestIds : delivery_requests[r].status = "pending"
                         /\ delivery_requests[r].deliverer_id = NULL}

\* .order_by(created_at.desc()).all(): the lists the query may return for
\* the ids S of table rows; rows of equal created_at come in either order.
order_by_created_at_desc(rows, S) ==
    {p \in RowOrders(S) :
        \A i \in 1..Len(p), j \in 1..Len(p) :
            i < j => rows[p[i]].created_at >= rows[p[j]].created_at}

get_available_orders_check(u) ==
    IF ~UserExists(u) \/ user_type(u) # "deliverer" THEN "forbidden" ELSE "ok"

\* The lists get_available_orders may answer with.
get_available_orders(u) ==
    IF get_available_orders_check(u) = "ok"
    THEN order_by_created_at_desc(orders, available_orders)
    ELSE {}

get_available_delivery_requests_check(u) ==
    CASE ~UserExists(u) \/ user_type(u) # "deliverer" -> "forbidden"
      [] ~deliverers[u].is_online -> "must_be_online"
      [] OTHER -> "ok"

\* The lists get_available_delivery_requests may answer with.
get_available_delivery_requests(u) ==
    IF get_available_delivery_requests_check(u) = "ok"
    THEN order_by_created_at_desc(delivery_requests, available_delivery_requests)
    ELSE {}

\* Two orders and two delivery requests, the second of each placed with or
\* after the first; both deliverers are approved and online.
InitListing ==
    /\ \E c \in 0..MaxClock :
          /\ orders = [o \in 1..NumListed |->
                    [status |-> "pending", deliverer_id |-> NULL, notes |-> <<>>,
                     updated_at |-> 0, created_at |-> IF o = 1 THEN 0 ELSE c]]
          /\ delivery_requests = [r \in 1..NumListed |->
                    [status |-> "pending", deliverer_id |-> NULL,
                     created_at |-> IF r = 1 THEN 0 ELSE c]]
          /\ now = c
    /\ deliverers = [d \in DelivererIds |->
                    [exists |-> TRUE, is_active |-> TRUE, is_online |-> TRUE,
                     is_approved |-> TRUE, total_deliveries |-> 0]]
    /\ stores = [s \in StoreIds |-> [exists |-> TRUE, is_active |-> TRUE]]
    /\ session = [w \in WorkerIds |-> Idle]
    /\ locations = <<>>
    /\ tracking = <<>>
    /\ InitPlatform
    /\ InitLimiters
    /\ InitProducts

NextListing ==
    \/ \E u \in Callers, o \in OrderIds, raw \in OrderStatuses : update_order_status(u, o, raw)
    \/ \E u \in DelivererIds, o \in OrderIds : accept_delivery(u, o)
    \/ \E u \in DelivererIds, r \in RequestIds : accept_delivery_request(u, r)
    \/ \E u \in DelivererIds : toggle_online(u)
    \/ \E a \in Admins, o \in OrderIds \cup {NULL}, d \in DelivererIds \cup {NULL, ClientId} :
          reassign_order(a, o, d)

SpecListing == InitListing /\ [][NextListing]_vars

\* -------------------------------------------------- positions of deliverers
\* Two orders are ready for pick-up and both deliverers are approved and
\* online; the deliverers claim orders, report positions and deliver, and
\* the admin may reject a deliverer.
InitLocation ==
    /\ orders = [o \in 1..NumListed |->
                    [status |-> "ready", deliverer_id |-> NULL,
                     notes |-> <<>>, updated_at |-> 0, created_at |-> 0]]
    /\ delivery_requests = [r \in 1..NumRequests |->
                    [status |-> "pending", deliverer_id |-> NULL, created_at |-> 0]]
    /\ deliverers = [d \in DelivererIds |->
                    [exists |-> TRUE, is_active |-> TRUE, is_online |-> TRUE,
                     is_approved |-> TRUE, total_deliveries |-> 0]]
    /\ stores = [s \in StoreIds |-> [exists |-> TRUE, is_active |-> TRUE]]
    /\ now = 0
    /\ session = [w \in WorkerIds |-> Idle]
    /\ locations = <<>>
    /\ tracking = <<>>
    /\ InitPlatform
    /\ InitLimiters
    /\ InitProducts

NextLocation ==
    \/ \E u \in Callers, body \in LocationBodies : update_deliverer_location(u, body)
    \/ \E u \in DelivererIds, o \in OrderIds : accept_delivery(u, o)
    \/ \E u \in DelivererIds, o \in OrderIds : update_order_status(u, o, "delivered")
    \/ \E u \in DelivererIds : toggle_online(u)
    \/ \E d \in DelivererIds : reject_deliverer(AdminId, d)

SpecLocation == InitLocation /\ [][NextLocation]_vars

\* ------------------------------------------- fees, limits and the cities
NextPlatform ==
    \/ \E a \in Admins, key \in SettingKeys, value \in SettingValues :
          update_platform_settings(a, key, value)
    \/ \E a \in Admins, key \in SettingKeys, value \in SettingValues :
          update_platform_fees(a, key, value)
    \/ \E a \in Admins, c \in CityIds \cup {NoCity}, body \in CityBodies :
          add_allowed_city(a, c, body)
    \/ \E a \in Admins, c \in CityIds \cup {NoCity}, body \in CityBodies :
          update_allowed_city(a, c, body)
    \/ \E a \in Admins, c \in CityIds \cup {NoCity} : delete_allowed_city(a, c)
    \/ \E arg \in DistanceArgs, city_id \in CityArgs : calculate_delivery_fee(arg, city_id)
    \/ \E city_id \in CityArgs : get_order_limits(city_id)

SpecPlatform == Init /\ [][NextPlatform]_vars

\* ---------------------------------------------- positions and who is near
\* The points the deliverers report, the centres and radii that are asked;
\* deliverer 1 is on the way with the orders.
ReportedPoints == {pt \in Points : pt.latitude + pt.longitude <= 60 /\ pt.latitude # 60}
Radii == {0, 3335855, 7000000}

InitNearby ==
    /\ orders = [o \in 1..NumOrders |->
                    [status |-> "delivering", deliverer_id |-> 1,
                     notes |-> <<>>, updated_at |-> 0, created_at |-> 0]]
    /\ delivery_requests = [r \in 1..NumRequests |->
                    [status |-> "pending", deliverer_id |-> NULL, created_at |-> 0]]
    /\ deliverers = [d \in DelivererIds |->
                    [exists |-> TRUE, is_active |-> TRUE, is_online |-> TRUE,
                     is_approved |-> TRUE, total_deliveries |-> 0]]
    /\ stores = [s \in StoreIds |-> [exists |-> TRUE, is_active |-> TRUE]]
    /\ now = 0
    /\ session = [w \in WorkerIds |-> Idle]
    /\ locations = <<>>
    /\ tracking = <<>>
    /\ InitPlatform
    /\ InitLimiters
    /\ InitProducts

NextNearby ==
    \/ \E u \in DelivererIds, pt \in ReportedPoints :
          update_deliverer_location(u, Coordinates(pt))
    \/ \E u \in DelivererIds : toggle_online(u)
    \/ \E d \in DelivererIds : reject_deliverer(AdminId, d)
    \/ Tick

SpecNearby == InitNearby /\ [][NextNearby]_vars

\* ------------------------------------------- the two functions of geometry
\* The distances and speeds an arrival is estimated for, in thousandths of
\* a km and in km/h (every caller passes the default speed).
EtaDistances == {-5000, 0, 1000, 5000, 3335855}
Speeds == {25, 50}

InitGeometry ==
    /\ orders = [o \in 1..NumOrders |->
                    [status |-> "pending", deliverer_id |-> NULL,
                     notes |-> <<>>, updated_at |-> 0, created_at |-> 0]]
    /\ delivery_requests = [r \in 1..NumRequests |->
                    [status |-> "pending", deliverer_id |-> NULL, created_at |-> 0]]
    /\ deliverers = [d \in DelivererIds |->
                    [exists |-> TRUE, is_active |-> TRUE, is_online |-> FALSE,
                     is_approved |-> FALSE, total_deliveries |-> 0]]
    /\ stores = [s \in StoreIds |-> [exists |-> TRUE, is_active |-> TRUE]]
    /\ now = 0
    /\ session = [w \in WorkerIds |-> Idle]
    /\ locations = <<>>
    /\ tracking = <<>>
    /\ platform_settings = [k \in SettingKeys |-> NoSetting]
    /\ allowed_cities = [c \in CityIds |-> NoCityRow]
    /\ InitLimiters
    /\ InitProducts
    /\ \E a \in Points, b \in Points, d \in EtaDistances, v \in Speeds :
          response = [op |-> "none", a |-> a, b |-> b, distance_km |-> d,
                      avg_speed_kmh |-> v, result |-> <<>>]

calculate_distance_apply ==
    /\ response' = [response EXCEPT
          !.op = "calculate_distance",
          !.result = <<calculate_distance(response.a.latitude, response.a.longitude,
                                          response.b.latitude, response.b.longitude)>>]
    /\ UNCHANGED <<orders, delivery_requests, deliverers, stores, now, session,
                   locations, tracking, platform_settings, allowed_cities,
                        limiters, products>>

estimate_arrival_time_apply ==
    /\ response' = [response EXCEPT
          !.op = "estimate_arrival_time",
          !.result = <<utcnow,
                       estimate_arrival_time(response.distance_km, response.avg_speed_kmh)>>]
    /\ UNCHANGED <<orders, delivery_requests, deliverers, stores, now, session,
                   locations, tracking, platform_settings, allowed_cities,
                        limiters, products>>

NextGeometry ==
    \/ calculate_distance_apply
    \/ estimate_arrival_time_apply
    \/ Tick

SpecGeometry == InitGeometry /\ [][NextGeometry]_vars

\* ------------------------------------------- stores removed or turned off
NextStores ==
    \/ \E u \in Callers, o \in OrderArgs, raw \in StatusArgs : update_order_status(u, o, raw)
    \/ \E u \in Callers, o \in OrderArgs : accept_delivery(u, o)
    \/ \E a \in Admins, d \in DelivererIds : approve_deliverer(a, d)
    \/ \E a \in Admins, s \in StoreIds : delete_store(a, s)
    \/ \E a \in Admins, u \in UserIds : delete_user(a, u)
    \/ \E a \in Admins, s \in StoreIds : reject_store(a, s)
    \/ \E a \in Admins, s \in StoreIds : reactivate_store(a, s)
    \/ Tick

SpecStores == Init /\ [][NextStores]_vars

\* ------------------------------ claims of requests and positions in flight
\* accept_delivery_request loads the request and checks it (begin), then
\* flushes an UPDATE keyed by the primary key alone (commit).
accept_delivery_request_begin(w, u, r) ==
    IF session[w] = Idle /\ accept_delivery_request_check(u, r) = "ok"
    THEN /\ session' = [session EXCEPT ![w] = Pending("accept_delivery_request", u, r, "")]
         /\ UNCHANGED <<orders, delivery_requests, deliverers, stores, now, locations, tracking, platform, limiters, products>>
    ELSE UNCHANGED vars

accept_delivery_request_commit(w) ==
    /\ session[w].op = "accept_delivery_request"
    /\ delivery_requests' =
          accept_delivery_request_write(session[w].user, session[w].target)
    /\ session' = [session EXCEPT ![w] = Idle]
    /\ UNCHANGED <<orders, deliverers, stores, now, locations, tracking, platform, limiters, products>>

\* update_deliverer_location runs its bulk UPDATE inside the open transaction
\* (begin): the statement reaches the rows committed when it runs, which the
\* pending request records as the length of the table.  The deactivation and
\* the inserted rows become visible together at the commit.
update_deliverer_location_begin(w, u, body) ==
    IF session[w] = Idle /\ update_deliverer_location_check(u, body) = "ok"
    THEN /\ session' = [session EXCEPT
               ![w] = Pending("update_deliverer_location", u, Len(locations), "")]
         /\ UNCHANGED <<orders, delivery_requests, deliverers, stores, now, locations, tracking, platform, limiters, products>>
    ELSE UNCHANGED vars

\* No step of NextDispatchRace changes an order, so the orders the view read
\* before the commit are the orders of the state; the one body that passes
\* the checks of the begin step is Origin.
update_deliverer_location_commit(w) ==
    /\ session[w].op = "update_deliverer_location"
    /\ Len(locations) < MaxLocations
    /\ locations' = Append(deactivate_locations(session[w].user, session[w].target),
                           new_location(session[w].user, Origin))
    /\ \E p \in RowOrders(active_orders(session[w].user)) :
          tracking' = tracking \o [i \in 1..Len(p) |-> new_tracking(p[i], session[w].user)]
    /\ session' = [session EXCEPT ![w] = Idle]
    /\ UNCHANGED <<orders, delivery_requests, deliverers, stores, now, platform, limiters, products>>

NextDispatchRace ==
    \/ \E w \in WorkerIds, u \in Callers, r \in RequestArgs :
          accept_delivery_request_begin(w, u, r)
    \/ \E w \in WorkerIds : accept_delivery_request_commit(w)
    \/ \E w \in WorkerIds, u \in Callers, body \in LocationBodies :
          update_deliverer_location_begin(w, u, body)
    \/ \E w \in WorkerIds : update_deliverer_location_commit(w)

SpecDispatchRace == InitRace /\ [][NextDispatchRace]_vars

NextRateLimit ==
    \/ \E w \in WorkerIds, u \in {1, AdminId} : create_order_refused(w, u)
    \/ Tick

SpecRateLimit == Init /\ [][NextRateLimit]_vars

NextLogin ==
    \/ \E w \in WorkerIds, ip \in Addresses, credentials \in Credentials :
          login_route(w, ip, credentials)
    \/ Tick

SpecLogin == Init /\ [][NextLogin]_vars

\* -------------------------------------------------- removal of deliverers
\* Deliverers take ready orders, are bound by the admin, report positions
\* and deliver, while the admin deletes them by each of the delete views.
NextRemoval ==
    \/ \E u \in DelivererIds, o \in OrderIds : accept_delivery(u, o)
    \/ \E u \in DelivererIds, o \in OrderIds : update_order_status(u, o, "delivered")
    \/ \E o \in OrderIds, d \in DelivererIds : reassign_order(AdminId, o, d)
    \/ \E u \in DelivererIds : update_deliverer_location(u, Origin)
    \/ \E a \in Admins, d \in DelivererIds : delete_deliverer(a, d)
    \/ \E a \in Admins, u \in UserIds : delete_user(a, u)
    \/ \E a \in Admins, u \in UserIds : delete_user_account(a, u)
    \/ \E a \in Admins, user_ids \in UserLists, action \in BulkActions :
          bulk_user_action(a, user_ids, action)

SpecRemoval == InitLocation /\ [][NextRemoval]_vars

\* ------------------------------------------------------ placing of orders
\* The requests of create_order that have not committed yet.
OpenOrders == {w \in WorkerIds : session[w].op = "create_order"}

\* create_order up to the flush: the checks, the product rows and the
\* order number are read, nothing is written yet.
create_order_begin(w, u, body) ==
    IF session[w].op = "idle" /\ create_order_check(u, body) = "ok"
    THEN /\ Len(orders) + Cardinality(OpenOrders) < MaxCreated
         /\ \E n \in OrderNumbers :
               /\ ~order_number_taken(n)
               /\ session' = [session EXCEPT ![w] =
                     Pending("create_order", u, n, [items |-> body.items, loaded |-> products])]
         /\ UNCHANGED <<orders, delivery_requests, deliverers, stores, now, locations, tracking, platform, limiters, products>>
    ELSE UNCHANGED vars

\* The flush and the commit: the order is inserted and the stock written,
\* or the INSERT fails on the unique order_number and the view rolls back.
create_order_commit(w) ==
    /\ session[w].op = "create_order"
    /\ session' = [session EXCEPT ![w] = Idle]
    /\ IF unique_violation(session[w].target)
       THEN UNCHANGED <<orders, products>>
       ELSE /\ orders' = Append(orders, new_order(session[w].target, session[w].arg.items))
            /\ products' = create_order_stock(session[w].arg.items, session[w].arg.loaded)
    /\ UNCHANGED <<delivery_requests, deliverers, stores, now, locations, tracking, platform, limiters>>

\* No order has been placed yet; the client and the other users call
\* create_order, served by the two workers.
InitOrders ==
    /\ orders = <<>>
    /\ delivery_requests = [r \in 1..NumRequests |->
                    [status |-> "pending", deliverer_id |-> NULL, created_at |-> 0]]
    /\ deliverers = [d \in DelivererIds |->
                    [exists |-> TRUE, is_active |-> TRUE, is_online |-> FALSE,
                     is_approved |-> FALSE, total_deliveries |-> 0]]
    /\ stores = [s \in StoreIds |-> [exists |-> TRUE, is_active |-> TRUE]]
    /\ now = 0
    /\ session = [w \in WorkerIds |-> Idle]
    /\ locations = <<>>
    /\ tracking = <<>>
    /\ InitPlatform
    /\ InitLimiters
    /\ InitProducts

NextOrders ==
    \/ \E w \in WorkerIds, u \in {ClientId, AdminId}, body \in OrderBodies :
          create_order_begin(w, u, body)
    \/ \E w \in WorkerIds : create_order_commit(w)

SpecOrders == InitOrders /\ [][NextOrders]_vars

\* ================================================================ properties
\* The lifecycle graph: the linear path, and cancellation from every status
\* that is not terminal.
TerminalStatuses == {"delivered", "cancelled"}
LifecycleEdges ==
    {<<"pending", "accepted">>, <<"accepted", "preparing">>, <<"preparing", "ready">>,
     <<"ready", "delivering">>, <<"delivering", "delivered">>}
    \cup {<<s, "cancelled">> : s \in OrderStatuses \ TerminalStatuses}

\* C1 (SpecRace): of the accept_delivery requests in flight for one order,
\* only the first commit takes effect: an accept commits only while the order
\* is still ready with no deliverer, so the deliverer_id the winner wrote is
\* never overwritten by the loser.
C1_OneClaimWins ==
    [][\A w \in WorkerIds :
          accept_delivery_commit(w) =>
              /\ orders[session[w].target].status = "ready"
              /\ orders[session[w].target].deliverer_id = NULL]_vars

\* C2 (Spec): every change of an order's status, whichever view makes it, is
\* an edge of the lifecycle graph.
C2_StatusFollowsGraph ==
    [][\A o \in OrderIds :
          orders'[o].status # orders[o].status =>
              <<orders[o].status, orders'[o].status>> \in LifecycleEdges]_vars

\* C3 (SpecRace): delivered and cancelled are terminal: once an order has one
\* of them, no later step changes its status.
C3_TerminalIsFinal ==
    [][\A o \in OrderIds :
          orders[o].status \in TerminalStatuses =>
              orders'[o].status = orders[o].status]_vars

\* The transition table as the specification states it for stores and
\* deliverers.
StatedTransitions(role, status) ==
    IF role = "store" THEN
        IF status = "pending" THEN {"accepted", "cancelled"}
        ELSE IF status = "accepted" THEN {"preparing"}
        ELSE IF status = "preparing" THEN {"ready"}
        ELSE {}
    ELSE IF role = "deliverer" THEN
        IF status = "ready" THEN {"delivering"}
        ELSE IF status = "delivering" THEN {"delivered"}
        ELSE {}
    ELSE {}

\* The owner of the order's store, or the deliverer bound to the order.
Authorised(u, o) ==
    \/ u \in StoreOwnerIds /\ stores[u - 10].exists /\ OrderStore(o) = u - 10
    \/ u \in DelivererIds /\ deliverers[u].exists /\ orders[o].deliverer_id = u

\* C4 (Spec): for an authorised store or deliverer, update_order_status
\* succeeds exactly when the new status is in the stated table for the
\* order's current status, and then the order takes that status; every
\* other new status is answered as an invalid transition.
C4_TransitionTable ==
    /\ [](\A u \in StoreOwnerIds \cup DelivererIds, o \in OrderIds, new \in OrderStatuses :
            Authorised(u, o) =>
                IF new \in StatedTransitions(user_type(u), orders[o].status)
                THEN update_order_status_check(u, o, new) = "ok"
                ELSE update_order_status_check(u, o, new) = "invalid_transition")
    /\ [][orders' # orders =>
            \A u \in StoreOwnerIds \cup DelivererIds, o \in OrderIds, new \in OrderStatuses :
                Authorised(u, o) /\ update_order_status(u, o, new) =>
                    /\ new \in StatedTransitions(user_type(u), orders[o].status)
                    /\ orders'[o].status = new]_vars

\* A deliverer is bound to an order that is on its way, and the store's
\* owner is there: both halves of the table have a caller.
C4_Witness ==
    \E o \in OrderIds, d \in DelivererIds :
        /\ Authorised(d, o) /\ Authorised(StoreOwnerId(OrderStore(o)), o)
        /\ orders[o].status = "delivering"
        /\ update_order_status_check(d, o, "delivered") = "ok"
        /\ update_order_status_check(d, o, "ready") = "invalid_transition"

\* What the specification lets an admin do: the union of the store and
\* deliverer tables, and cancellation from every active status.
AdminStatedTransitions(status) ==
    StatedTransitions("store", status) \cup StatedTransitions("deliverer", status)
        \cup (IF status \in TerminalStatuses THEN {} ELSE {"cancelled"})

\* A step of one of the views an admin calls.
AdminStep ==
    \/ \E o \in OrderIds, st \in OrderStatuses : update_order_status(AdminId, o, st)
    \/ \E o \in OrderIds, st \in OrderStatuses : update_order_status_admin(AdminId, o, st)
    \/ \E o \in OrderIds : cancel_order_admin(AdminId, o)
    \/ \E o \in OrderIds, d \in DelivererIds : reassign_order(AdminId, o, d)
    \/ \E d \in DelivererIds : delete_deliverer(AdminId, d)
    \/ \E st \in StoreIds : delete_store(AdminId, st)
    \/ \E u \in UserIds : delete_user(AdminId, u) \/ delete_user_account(AdminId, u)

\* C5 (Spec): every status change an admin makes is in the admin's set: an
\* edge of the store or deliverer table, or a cancellation of an active
\* order.
C5_AdminTransitions ==
    [][AdminStep =>
          \A o \in OrderIds :
              orders'[o].status # orders[o].status =>
                  orders'[o].status \in AdminStatedTransitions(orders[o].status)]_vars

\* C6 (Spec): a rejected update_order_status, accept_delivery or
\* accept_delivery_request changes no order, no delivery request and no
\* deliverer row.
C6_RejectedChangesNothing ==
    [][~UNCHANGED <<orders, delivery_requests, deliverers, platform, limiters, products>> =>
          \A u \in Callers :
              /\ \A o \in OrderArgs, raw \in StatusArgs :
                    update_order_status_check(u, o, raw) # "ok"
                        => ~update_order_status(u, o, raw)
              /\ \A o \in OrderArgs :
                    accept_delivery_check(u, o) # "ok" => ~accept_delivery(u, o)
              /\ \A r \in RequestArgs :
                    accept_delivery_request_check(u, r) # "ok"
                        => ~accept_delivery_request(u, r)]_vars

\* The three views each have a call they reject: a second claim of an order
\* on its way, a backward status, a claim of a request already taken.
C6_Witness ==
    \E o \in OrderIds, r \in RequestIds, d \in DelivererIds, e \in DelivererIds :
        /\ d # e
        /\ orders[o].deliverer_id = d /\ orders[o].status = "delivering"
        /\ accept_delivery_check(e, o) = "not_available"
        /\ update_order_status_check(d, o, "ready") = "invalid_transition"
        /\ delivery_requests[r].deliverer_id = d
        /\ accept_delivery_request_check(e, r) = "not_available"

\* C7 (Spec): a claim, of an order or of a delivery request, succeeds only
\* for a deliverer who is online and approved when it is made.
C7_ClaimNeedsOnlineApproved ==
    [][orders' # orders \/ delivery_requests' # delivery_requests =>
          \A d \in DelivererIds :
              /\ \A o \in OrderIds :
                    accept_delivery(d, o) =>
                        deliverers[d].is_online /\ deliverers[d].is_approved
              /\ \A r \in RequestIds :
                    accept_delivery_request(d, r) =>
                        deliverers[d].is_online /\ deliverers[d].is_approved]_vars

\* C8 (Spec): accept_delivery by an online, approved deliverer on a ready
\* order without deliverer succeeds, and on an order of any other status is
\* answered "not available"; a successful accept_delivery takes the order
\* from ready to delivering and binds the caller in the same step.
C8_AcceptDelivery ==
    /\ [](\A d \in DelivererIds, o \in OrderIds :
            deliverers[d].exists /\ deliverers[d].is_online /\ deliverers[d].is_approved =>
                /\ orders[o].status = "ready" /\ orders[o].deliverer_id = NULL =>
                        accept_delivery_check(d, o) = "ok"
                /\ orders[o].status # "ready" =>
                        accept_delivery_check(d, o) = "not_available")
    /\ [][orders' # orders =>
            \A d \in DelivererIds, o \in OrderIds :
                accept_delivery(d, o) =>
                    /\ orders[o].status = "ready" /\ orders[o].deliverer_id = NULL
                    /\ orders'[o].status = "delivering"
                    /\ orders'[o].deliverer_id = d]_vars

\* An online, approved deliverer holds an order no admin ever reassigned:
\* the deliverer was bound by accept_delivery.
C8_Witness ==
    \E d \in DelivererIds, o \in OrderIds :
        /\ deliverers[d].exists /\ deliverers[d].is_online /\ deliverers[d].is_approved
        /\ orders[o].deliverer_id = d /\ orders[o].status = "delivering"
        /\ orders[o].notes = <<>>

\* C9 (Spec): an order has a deliverer exactly when it is delivering or
\* delivered, or when it is accepted, preparing or ready and an admin
\* reassigned it to that deliverer: no delivering or delivered order is
\* without deliverer, no pending or cancelled order has one.
C9_DelivererBinding ==
    \A o \in OrderIds :
        orders[o].deliverer_id # NULL <=>
            \/ orders[o].status \in {"delivering", "delivered"}
            \/ /\ orders[o].status \in {"accepted", "preparing", "ready"}
               /\ \E i \in 1..Len(orders[o].notes) :
                     /\ orders[o].notes[i].kind = "reassign"
                     /\ orders[o].notes[i].new = orders[o].deliverer_id

\* C10 (Spec): the step that makes an order delivered adds one to the
\* total_deliveries of the order's deliverer, and no other step on that
\* order adds to it.
C10_DeliveredCountsOnce ==
    [][\A o \in OrderIds :
          /\ orders'[o].status = "delivered" /\ orders[o].status # "delivered"
          /\ orders'[o].deliverer_id \in DelivererIds
          => deliverers'[orders'[o].deliverer_id].total_deliveries =
                 deliverers[orders'[o].deliverer_id].total_deliveries + 1]_vars

\* C11 (SpecDispatchRace): of the accept_delivery_request calls in flight for
\* one request, at most one takes effect: once a committed accept has set the
\* request's deliverer_id, no accept of another deliverer overwrites it.
C11_OneRequestClaimWins ==
    [][\A r \in RequestIds :
          delivery_requests[r].deliverer_id # NULL =>
              delivery_requests'[r].deliverer_id = delivery_requests[r].deliverer_id]_vars

\* The delivery request graph as the specification states it.
RequestEdges ==
    {<<"pending", "accepted">>, <<"accepted", "picked_up">>,
     <<"picked_up", "delivered">>, <<"accepted", "cancelled">>}

\* C12 (Spec): every change of a delivery request's status is an edge of
\* pending -> accepted -> picked_up -> delivered, or accepted -> cancelled;
\* delivered and cancelled are left by no step, and pending is left only by
\* a successful accept_delivery_request.  The table of
\* update_delivery_request_status holds only edges of the graph and none
\* out of pending.
C12_RequestPath ==
    /\ [](\A st \in RequestStatuses : \A new \in request_transitions(st) :
            <<st, new>> \in RequestEdges /\ st # "pending")
    /\ [][delivery_requests' # delivery_requests =>
            \A r \in RequestIds :
                delivery_requests'[r].status # delivery_requests[r].status =>
                    /\ <<delivery_requests[r].status, delivery_requests'[r].status>>
                           \in RequestEdges
                    /\ delivery_requests[r].status = "pending" =>
                           \E u \in DelivererIds :
                               /\ accept_delivery_request_check(u, r) = "ok"
                               /\ accept_delivery_request(u, r)]_vars

\* A deliverer has accepted a request.
C12_Witness ==
    \E r \in RequestIds :
        /\ delivery_requests[r].status = "accepted"
        /\ delivery_requests[r].deliverer_id \in DelivererIds

\* The rows of table locs that are the active position of deliverer d.
ActiveLocations(locs, d) ==
    {i \in 1..Len(locs) : locs[i].deliverer_id = d /\ locs[i].is_active}

\* C13 (SpecLocation): with one call at a time, every deliverer has at most
\* one location row with is_active = true, and after a successful
\* update_deliverer_location the caller's active row is the row that call
\* inserted.
C13_OneActiveLocation ==
    /\ [](\A d \in DelivererIds : Cardinality(ActiveLocations(locations, d)) <= 1)
    /\ [][locations' # locations =>
            \A u \in DelivererIds :
                update_deliverer_location(u, Origin) =>
                    /\ Len(locations') = Len(locations) + 1
                    /\ ActiveLocations(locations', u) = {Len(locations')}]_vars

\* A deliverer has reported twice: the older row is inactive, the newer
\* one active.
C13_Witness ==
    \E d \in DelivererIds, i \in 1..Len(locations), j \in 1..Len(locations) :
        /\ i < j
        /\ locations[i].deliverer_id = d /\ ~locations[i].is_active
        /\ locations[j].deliverer_id = d /\ locations[j].is_active

\* C14 (SpecDispatchRace): with update_deliverer_location calls of one
\* deliverer in flight on both workers, no committed state has two active
\* location rows for a deliverer, and no commit leaves a deliverer who had an
\* active row without one.
C14_ReadersSeeOneActive ==
    [][\A d \in DelivererIds :
          /\ Cardinality(ActiveLocations(locations', d)) <= 1
          /\ ActiveLocations(locations, d) # {} => ActiveLocations(locations', d) # {}]_vars

\* C15 (SpecLocation): update_deliverer_location succeeds only for a
\* deliverer whose profile is online and approved.
C15_LocationNeedsOnlineApproved ==
    [][locations' # locations \/ tracking' # tracking =>
          \A u \in DelivererIds :
              update_deliverer_location(u, Origin) =>
                  deliverers[u].is_online /\ deliverers[u].is_approved]_vars

\* The tracking rows a step appended.
AddedTracking == SubSeq(tracking', Len(tracking) + 1, Len(tracking'))

\* C16 (SpecLocation): a successful update_deliverer_location by deliverer u
\* appends exactly one tracking row, with status in_transit, for each order
\* that is delivering with deliverer_id = u and none for any other order; the
\* call passes its checks whether or not there are such orders; no step
\* changes or removes a tracking row there is.
C16_TrackingFanOut ==
    /\ [](\A u \in DelivererIds :
            deliverers[u].exists /\ deliverers[u].is_online =>
                update_deliverer_location_check(u, Origin) = "ok")
    /\ [][/\ Len(tracking') >= Len(tracking)
          /\ SubSeq(tracking', 1, Len(tracking)) = tracking
          /\ locations' # locations =>
                \A u \in DelivererIds :
                    update_deliverer_location(u, Origin) =>
                        /\ \A o \in OrderIds :
                              Cardinality({i \in 1..Len(AddedTracking) :
                                              AddedTracking[i].order_id = o}) =
                                 IF orders[o].status = "delivering"
                                    /\ orders[o].deliverer_id = u
                                 THEN 1 ELSE 0
                        /\ \A i \in 1..Len(AddedTracking) :
                              /\ AddedTracking[i].status = "in_transit"
                              /\ AddedTracking[i].deliverer_id = u
                              /\ AddedTracking[i].order_id \in OrderIds]_vars

\* One deliverer has reported while carrying both orders, the other has
\* reported while carrying none, and an order has been delivered since.
C16_Witness ==
    \E d \in DelivererIds, e \in DelivererIds, i \in 1..Len(tracking), j \in 1..Len(tracking) :
        /\ d # e
        /\ tracking[i].deliverer_id = d /\ tracking[j].deliverer_id = d
        /\ tracking[i].order_id # tracking[j].order_id
        /\ tracking[i].created_at = tracking[j].created_at
        /\ \E k \in 1..Len(locations) : locations[k].deliverer_id = e
        /\ \A k \in 1..Len(tracking) : tracking[k].deliverer_id # e
        /\ \E o \in OrderIds : orders[o].status = "delivered"

\* List p holds each id of S once and nothing else.
ListsExactly(p, S) ==
    /\ {p[i] : i \in 1..Len(p)} = S
    /\ Len(p) = Cardinality(S)

\* List p of ids of table rows is in newest-first order.
NewestFirst(p, rows) ==
    \A i \in 1..Len(p) - 1 : rows[p[i]].created_at >= rows[p[i + 1]].created_at

\* C17 (SpecListing): in every state, whatever get_available_orders answers
\* a deliverer is exactly the orders that are ready without deliverer, and
\* whatever get_available_delivery_requests answers an online deliverer is
\* exactly the requests that are pending without deliverer, each newest
\* first; so no claimed, reassigned, cancelled or not yet ready job is listed.
C17_AvailableListings ==
    \A u \in DelivererIds :
        /\ deliverers[u].exists =>
              /\ get_available_orders(u) # {}
              /\ \A p \in get_available_orders(u) :
                    /\ ListsExactly(p, {o \in OrderIds : orders[o].status = "ready"
                                                          /\ orders[o].deliverer_id = NULL})
                    /\ NewestFirst(p, orders)
                    /\ \A i \in 1..Len(p) :
                          /\ orders[p[i]].status \notin
                                {"pending", "accepted", "preparing", "delivering",
                                 "delivered", "cancelled"}
                          /\ orders[p[i]].deliverer_id \notin DelivererIds
        /\ deliverers[u].exists /\ deliverers[u].is_online =>
              /\ get_available_delivery_requests(u) # {}
              /\ \A p \in get_available_delivery_requests(u) :
                    /\ ListsExactly(p, {r \in RequestIds :
                                          delivery_requests[r].status = "pending"
                                          /\ delivery_requests[r].deliverer_id = NULL})
                    /\ NewestFirst(p, delivery_requests)

\* Of two orders placed at different times the newer is ready and unclaimed
\* together with the older, or the older is ready but reassigned to a
\* deliverer; one request is taken, the other is not.
C17_Witness ==
    /\ orders[1].created_at < orders[2].created_at
    /\ orders[2].status = "ready" /\ orders[2].deliverer_id = NULL
    /\ orders[1].status = "ready" /\ orders[1].deliverer_id \in DelivererIds
    /\ delivery_requests[1].status = "accepted"
    /\ delivery_requests[2].status = "pending"
    /\ \E u \in DelivererIds : <<2>> \in get_available_orders(u)

\* C19 (SpecListing): a successful reassign_order sets the order's
\* deliverer_id to the new deliverer, appends to its notes one entry that
\* records the previous deliverer_id, and leaves the order's status and
\* every other order as they were.
C19_ReassignEffect ==
    [][orders' # orders =>
          \A o \in OrderIds, d \in DelivererIds :
              reassign_order(AdminId, o, d) =>
                  /\ orders'[o].deliverer_id = d
                  /\ Len(orders'[o].notes) = Len(orders[o].notes) + 1
                  /\ SubSeq(orders'[o].notes, 1, Len(orders[o].notes)) = orders[o].notes
                  /\ orders'[o].notes[Len(orders'[o].notes)].old = orders[o].deliverer_id
                  /\ orders'[o].status = orders[o].status
                  /\ \A other \in OrderIds \ {o} : orders'[other] = orders[other]]_vars

\* One order was reassigned to a deliverer while the other order is on its
\* way with a deliverer.
C19_Witness ==
    \E o \in OrderIds, other \in OrderIds :
        /\ o # other
        /\ Len(orders[o].notes) = 1
        /\ orders[o].notes[1].kind = "reassign"
        /\ orders[o].notes[1].new = orders[o].deliverer_id
        /\ orders[o].status \in {"accepted", "preparing", "ready"}
        /\ orders[other].status = "delivering"

\* Deliverer d exists, is active and is approved.
GoodDeliverer(d) ==
    /\ d \in DelivererIds
    /\ deliverers[d].exists /\ deliverers[d].is_active /\ deliverers[d].is_approved

\* C18 (Spec): an admin's reassign_order passes its checks exactly when the
\* order is accepted, preparing or ready and the new deliverer exists, is
\* active and is approved; a call with any other status or deliverer is
\* rejected and changes no order.
C18_ReassignGuard ==
    /\ [](\A o \in OrderIds, d \in DelivererIds \cup {ClientId} :
            reassign_order_check(AdminId, o, d) = "ok" <=>
                orders[o].status \in {"accepted", "preparing", "ready"} /\ GoodDeliverer(d))
    /\ [][orders' # orders =>
            \A o \in OrderIds, d \in DelivererIds \cup {ClientId} :
                ~(orders[o].status \in {"accepted", "preparing", "ready"} /\ GoodDeliverer(d))
                    => ~reassign_order(AdminId, o, d)]_vars

\* An accepted order, a deliverer the admin approved, one the admin
\* rejected or never approved: one call passes, the other is refused.
C18_Witness ==
    \E o \in OrderIds, d \in DelivererIds, e \in DelivererIds :
        /\ orders[o].status = "accepted"
        /\ reassign_order_check(AdminId, o, d) = "ok"
        /\ deliverers[e].exists /\ ~deliverers[e].is_approved
        /\ reassign_order_check(AdminId, o, e) # "ok"

\* C20 (Spec): every successful status change an admin makes through
\* update_order_status, cancel_order_admin or update_order_status_admin
\* appends one entry to the order's notes in the same step and keeps the
\* entries there were.
C20_AdminChangeIsNoted ==
    [][orders' # orders =>
          \A o \in OrderIds :
              /\ orders'[o].status # orders[o].status
              /\ \/ \E st \in OrderStatuses : update_order_status(AdminId, o, st)
                 \/ \E st \in OrderStatuses : update_order_status_admin(AdminId, o, st)
                 \/ cancel_order_admin(AdminId, o)
              => /\ Len(orders'[o].notes) = Len(orders[o].notes) + 1
                 /\ SubSeq(orders'[o].notes, 1, Len(orders[o].notes)) = orders[o].notes]_vars

\* s is a prefix of t.
IsPrefix(s, t) == Len(s) <= Len(t) /\ SubSeq(t, 1, Len(s)) = s

\* C21 (Spec): the notes of an order are append-only: in every step the
\* notes an order had are a prefix of the notes it has afterwards.
C21_NotesAppendOnly ==
    [][orders' # orders =>
          \A o \in OrderIds : IsPrefix(orders[o].notes, orders'[o].notes)]_vars

\* An order reassigned twice: two entries, the earlier one in front.
C21_Witness ==
    \E o \in OrderIds :
        /\ Len(orders[o].notes) = 2
        /\ orders[o].notes[2].old = orders[o].notes[1].new
        /\ orders[o].notes[2].new # orders[o].notes[1].new

\* The final fee of an accepted distance.
FinalFee(d, city_id) ==
    calculate_delivery_fee_response([kind |-> "number", value |-> d], city_id).fee[1]

Accepted(d, city_id) ==
    calculate_delivery_fee_response([kind |-> "number", value |-> d], city_id).status = 200

\* C24 (SpecPlatform): under every configuration the admin's settings and
\* city operations reach, the fee of an accepted distance is at least
\* minimum_delivery_fee, and of two accepted distances the longer one never
\* has the smaller fee.
C24_FeeMonotone ==
    \A city_id \in CityArgs, d1 \in Distances, d2 \in Distances :
        Accepted(d1, city_id) /\ Accepted(d2, city_id) /\ d1 <= d2 =>
            /\ FinalFee(d1, city_id) >= get_platform_setting("minimum_delivery_fee", 5)
            /\ FinalFee(d1, city_id) <= FinalFee(d2, city_id)

\* C25 (SpecPlatform): calculate_delivery_fee answers with the
\* distance-exceeded error exactly when the distance is greater than
\* maximum_delivery_distance (with the maximum at 10, 12 km fails and 10 km
\* is accepted); the failing answer carries no fee and the call changes no
\* table.
C25_DistanceExceeded ==
    /\ [](\A city_id \in CityArgs, d \in Distances :
            LET r == calculate_delivery_fee_response([kind |-> "number", value |-> d], city_id)
                maximum == IF platform_settings["maximum_delivery_distance"].set
                           THEN platform_settings["maximum_delivery_distance"].value
                           ELSE 10
            IN  /\ r.error = "distance_exceeded" <=> d > maximum
                /\ r.status = 200 <=> d <= maximum
                /\ r.error = "distance_exceeded" => r.status = 400 /\ r.fee = <<>>
                /\ maximum = 10 =>
                      /\ Accepted(10, city_id)
                      /\ ~Accepted(12, city_id))
    /\ [][response' # response /\ response'.op = "calculate_delivery_fee"
            /\ response'.error = "distance_exceeded"
            => /\ response'.fee = <<>>
               /\ UNCHANGED <<orders, delivery_requests, deliverers, stores, now, session,
                              locations, tracking, platform_settings, allowed_cities>>]_vars

\* With the maximum the admin set to 5, a request for 10 km was refused.
C25_Witness ==
    /\ platform_settings["maximum_delivery_distance"] = [set |-> TRUE, value |-> 5]
    /\ response.op = "calculate_delivery_fee"
    /\ response.args[1] = [kind |-> "number", value |-> 10]
    /\ response.error = "distance_exceeded"

\* The city row whose values count for city_id: it exists and is active.
ActiveCity(city_id) ==
    /\ city_id \in CityIds
    /\ allowed_cities[city_id].exists
    /\ allowed_cities[city_id].is_active

\* C26 (SpecPlatform): calculate_delivery_fee and get_order_limits take the
\* city's delivery_fee_per_km and minimum_order_value exactly when a city id
\* is given that names an existing active city, and the platform default
\* with no city id, an unknown city or an inactive one; neither call writes
\* a table.
C26_CityOverride ==
    /\ [](\A city_id \in CityArgs :
            /\ \A d \in Distances :
                  Accepted(d, city_id) =>
                      calculate_delivery_fee_response(
                          [kind |-> "number", value |-> d], city_id).fee_per_km =
                          IF ActiveCity(city_id)
                          THEN <<allowed_cities[city_id].delivery_fee_per_km>>
                          ELSE <<get_platform_setting("default_delivery_fee_per_km", 2)>>
            /\ get_order_limits_response(city_id).minimum_order_value =
                  IF ActiveCity(city_id)
                  THEN allowed_cities[city_id].minimum_order_value
                  ELSE get_platform_setting("default_minimum_order_value", 30))
    /\ [][response' # response =>
            UNCHANGED <<orders, delivery_requests, deliverers, stores, now, session,
                        locations, tracking, platform_settings, allowed_cities>>]_vars

\* A city the admin deactivated, with a rate that is not the platform's:
\* the fee asked for that city came at the platform rate.
C26_Witness ==
    \E c \in CityIds :
        /\ allowed_cities[c].exists /\ ~allowed_cities[c].is_active
        /\ allowed_cities[c].delivery_fee_per_km
              # get_platform_setting("default_delivery_fee_per_km", 2)
        /\ response.op = "calculate_delivery_fee"
        /\ response.status = 200
        /\ response.args[2] = c
        /\ response.fee_per_km = <<get_platform_setting("default_delivery_fee_per_km", 2)>>

\* The deliverers get_nearby_deliverers is to list for a centre and radius.
NearbyExpected(latitude, longitude, radius_km) ==
    {d \in DelivererIds :
        /\ deliverers[d].is_online /\ deliverers[d].is_approved
        /\ \E i \in 1..Len(locations) :
              /\ locations[i].deliverer_id = d
              /\ locations[i].is_active
              /\ utcnow - locations[i].created_at * TickMinutes <= FreshMinutes
              /\ calculate_distance(latitude, longitude,
                                    locations[i].latitude, locations[i].longitude)
                     <= radius_km}

C23_CurrentLocation ==
    \A o \in OrderIds :
        orders[o].deliverer_id # NULL =>
            LET fresh == {i \in 1..Len(locations) :
                             /\ locations[i].deliverer_id = orders[o].deliverer_id
                             /\ locations[i].is_active
                             /\ utcnow - locations[i].created_at * TickMinutes
                                    <= FreshMinutes}
            IN  track_order(AdminId, o) =
                    IF fresh = {} THEN {<<>>} ELSE {<<locations[i]>> : i \in fresh}

\* C28 (SpecGeometry): estimate_arrival_time never answers a time before
\* now: now itself for a distance that is not positive, and for a positive
\* distance now plus distance / speed hours (in whole minutes), so that the
\* longer of two distances never arrives earlier.
C28_ArrivalNotBeforeNow ==
    \A v \in Speeds, d \in EtaDistances :
        LET eta == estimate_arrival_time(d, v)
            minutes == eta - utcnow
        IN  /\ eta >= utcnow
            /\ d <= 0 => eta = utcnow
            /\ d > 0 => /\ minutes * v * 1000 <= d * 60
                        /\ d * 60 < (minutes + 1) * v * 1000
            /\ \A e \in EtaDistances : d <= e => eta <= estimate_arrival_time(e, v)

\* The function was applied to a negative distance after the clock had
\* moved, and answered the time of the call.
C28_Witness ==
    /\ response.op = "estimate_arrival_time"
    /\ response.distance_km < 0
    /\ response.result[1] > 0
    /\ response.result[2] = response.result[1]

\* C29 (SpecGeometry): calculate_distance gives the same distance for a
\* pair of points in either order, and distance 0 from a point to itself.
C29_DistanceSymmetric ==
    /\ \A a \in Points, b \in Points :
          /\ calculate_distance(a.latitude, a.longitude, b.latitude, b.longitude)
                = calculate_distance(b.latitude, b.longitude, a.latitude, a.longitude)
          /\ calculate_distance(a.latitude, a.longitude, a.latitude, a.longitude) = 0
    /\ response.op = "calculate_distance" =>
          /\ response.result[1]
                = calculate_distance(response.b.latitude, response.b.longitude,
                                     response.a.latitude, response.a.longitude)
          /\ response.a = response.b => response.result[1] = 0

\* The function was applied to two points that differ in latitude and in
\* longitude and are some distance apart.
C29_Witness ==
    /\ response.op = "calculate_distance"
    /\ response.a.latitude # response.b.latitude
    /\ response.a.longitude # response.b.longitude
    /\ response.result[1] > 0

\* C27 (SpecStores): a step that deletes a store or turns it inactive
\* cancels every pending order of that store and changes the status of no
\* other order.
C27_StoreRemovalCancelsPending ==
    [][\A s \in StoreIds :
          /\ stores[s].exists /\ stores[s].is_active
          /\ ~(stores'[s].exists /\ stores'[s].is_active)
          => \A o \in OrderIds :
                orders'[o].status =
                    IF OrderStore(o) = s /\ orders[o].status = "pending"
                    THEN "cancelled"
                    ELSE orders[o].status]_vars

\* C30 (SpecRace): of two calls in flight on one order, the one that commits
\* second is validated against the status the first one committed: an
\* update_order_status commits only a status its caller's table allows from
\* the status the order has at the commit, and an accept_delivery commits
\* only on a ready order, so the committed statuses are a path of the graph.
C30_SecondCommitValidated ==
    [][\A w \in WorkerIds :
          /\ update_order_status_commit(w) =>
                /\ session[w].arg \in
                      valid_transitions(user_type(session[w].user),
                                        orders[session[w].target].status)
                /\ <<orders[session[w].target].status, session[w].arg>> \in LifecycleEdges
          /\ accept_delivery_commit(w) =>
                <<orders[session[w].target].status, "delivering">> \in LifecycleEdges]_vars

\* The callers the specification lets change an order's status: the owner of
\* the order's store, the deliverer bound to the order, an admin.
Permitted(u, o) ==
    \/ u \in StoreOwnerIds /\ stores[u - 10].exists /\ OrderStore(o) = u - 10
    \/ u \in DelivererIds /\ orders[o].deliverer_id = u
    \/ u = AdminId

\* C31 (Spec): update_order_status changes an order only for the owner of
\* the order's store, the deliverer bound to the order or an admin; every
\* other caller (a client, the owner of another store, a deliverer who is not
\* the order's deliverer_id) is refused, with 403 when the caller's row is
\* there, and the order stays as it is.  update_delivery_request_status
\* changes a delivery request only for the deliverer bound to it.
C31_OnlyPermittedCallers ==
    /\ [](\A u \in Callers, o \in OrderIds, new \in OrderStatuses :
            ~Permitted(u, o) =>
                /\ update_order_status_check(u, o, new) # "ok"
                /\ UserExists(u) => update_order_status_check(u, o, new) = "forbidden")
    /\ [](\A u \in Callers, r \in RequestIds, new \in RequestStatuses :
            delivery_requests[r].deliverer_id # u =>
                update_delivery_request_status_check(u, r, new) # "ok")
    /\ [][orders' # orders =>
            \A u \in Callers, o \in OrderIds, new \in OrderStatuses :
                ~Permitted(u, o) => ~update_order_status(u, o, new)]_vars
    /\ [][delivery_requests' # delivery_requests =>
            \A u \in Callers, r \in RequestIds, new \in RequestStatuses :
                delivery_requests[r].deliverer_id # u
                    => ~update_delivery_request_status(u, r, new)]_vars

\* An order on its way with its deliverer: the bound deliverer may deliver
\* it, while the other deliverer, the client and the owner of the other
\* store are answered 403.
C31_Witness ==
    \E o \in OrderIds, d \in DelivererIds, e \in DelivererIds :
        /\ d # e /\ deliverers[e].exists
        /\ orders[o].deliverer_id = d /\ orders[o].status = "delivering"
        /\ update_order_status_check(d, o, "delivered") = "ok"
        /\ update_order_status_check(e, o, "delivered") = "forbidden"
        /\ update_order_status_check(ClientId, o, "cancelled") = "forbidden"
        /\ \E s \in StoreIds : /\ s # OrderStore(o) /\ stores[s].exists
                                /\ update_order_status_check(StoreOwnerId(s), o, "delivered") = "forbidden"

\* The entries of the log that satisfy P, as a number.
CountLog(P(_)) == Cardinality({i \in 1..Len(security_log) : P(security_log[i])})

\* The logins from ip that failed with 400 or 401 inside the lockout window
\* and after the last successful login from ip.
FailedLogins(ip) ==
    LET successes == {i \in 1..Len(security_log) :
                        /\ security_log[i].ip_address = ip
                        /\ security_log[i].event_type = "successful_login"}
        failed(i) == /\ security_log[i].ip_address = ip
                     /\ security_log[i].event_type \in
                            {"invalid_email_login", "failed_login_attempt"}
                     /\ security_log[i].timestamp >= utcnow - login_lockout_minutes
                     /\ \A j \in successes : j < i
    IN  Cardinality({i \in 1..Len(security_log) : failed(i)})

\* C32 (SpecLogin): once max_attempts logins from one address have failed
\* with 400 or 401 inside the lockout window, the next login from that
\* address is answered 423 before the view runs.
C32_LockedAfterFailures ==
    \A ip \in Addresses :
        FailedLogins(ip) >= login_max_attempts =>
            \A w \in WorkerIds : login_attempt_limiter_check(w, ip) = "locked"

\* The requests of user u that reached the view of POST /orders inside the
\* window that ends now.
HandledInWindow(u) ==
    LET handled(e) == /\ e.event_type = "unauthorized_access"
                      /\ e.user_id = u
                      /\ e.timestamp >= utcnow - create_order_window_minutes
    IN  CountLog(handled)

\* C33 (SpecRateLimit): for every key, at most max_requests requests reach
\* the wrapped view inside one window; a request answered 429 is not added
\* to the key's queue, and the old timestamps are removed before the count.
C33_AtMostMaxRequests ==
    /\ [](\A u \in UserIds : HandledInWindow(u) <= create_order_max_requests)
    /\ [][\A w \in WorkerIds, u \in UserIds :
            /\ rate_limit_check(w, user_key(u), create_order_max_requests,
                                create_order_window_minutes) = "rate_limit_exceeded"
            /\ create_order_refused(w, u)
            => /\ Len(request_counts'[w][user_key(u)]) <= Len(request_counts[w][user_key(u)])
               /\ security_log' = security_log]_vars

\* C34 (Spec): a deliverer profile that is online is approved, whatever
\* approve, reject, reactivate and toggle_online calls were made.
C34_OnlineIsApproved ==
    \A d \in DelivererIds :
        deliverers[d].exists /\ deliverers[d].is_online => deliverers[d].is_approved

\* The delivery requests bound to deliverer d that were delivered.
DeliveredRequests(d) ==
    {r \in RequestIds : /\ delivery_requests[r].deliverer_id = d
                        /\ delivery_requests[r].status = "delivered"}

C36_FailedLocationUpdate ==
    /\ [](\A u \in Callers, body \in LocationBodies :
            update_deliverer_location_check(u, body) # "ok" =>
                /\ update_deliverer_location_failed(u, body) = locations
                /\ \A i \in 1..Len(locations) :
                      locations[i].deliverer_id = u /\ locations[i].is_active
                          => update_deliverer_location_failed(u, body)[i].is_active)
    /\ [][locations' # locations \/ tracking' # tracking =>
            \A u \in Callers, body \in LocationBodies :
                update_deliverer_location_check(u, body) # "ok"
                    => ~update_deliverer_location(u, body)]_vars

\* An online deliverer with an active location row sends coordinates that
\* are not numbers, and a deliverer who went offline after reporting a
\* position still has the active row.
C36_Witness ==
    \E d \in DelivererIds, e \in DelivererIds, i \in 1..Len(locations), j \in 1..Len(locations) :
        /\ d # e
        /\ locations[i].deliverer_id = d /\ locations[i].is_active
        /\ \E body \in BadBodies : update_deliverer_location_check(d, body) = "server_error"
        /\ \E body \in BadBodies : update_deliverer_location_check(d, body) = "field_required"
        /\ locations[j].deliverer_id = e /\ locations[j].is_active
        /\ update_deliverer_location_check(e, Origin) = "must_be_online"

ActiveStatuses == {"pending", "accepted", "preparing", "ready", "delivering"}

\* C37 (SpecRemoval): an order in an active status with a deliverer refers
\* to a deliverer that still exists, and a step that deletes a deliverer
\* leaves no order bound to that deliverer: the delete views either refuse
\* because of the active orders or unbind them in the same commit.
C37_ActiveOrdersHaveDeliverer ==
    /\ [](\A o \in OrderIds :
            orders[o].status \in ActiveStatuses /\ orders[o].deliverer_id # NULL
                => deliverers[orders[o].deliverer_id].exists)
    /\ [](\A d \in DelivererIds, user_ids \in UserLists :
            d \in user_ids /\ bulk_active_orders(d) # {} => d \notin bulk_deleted(user_ids))
    /\ [][\A d \in DelivererIds :
            deliverers[d].exists /\ ~deliverers'[d].exists =>
                \A o \in OrderIds :
                    orders[o].deliverer_id = d => orders'[o].deliverer_id = NULL]_vars

\* A deliverer was deleted, the order that deliverer had been carrying is
\* pending again without a deliverer, and the other deliverer, who carries
\* an order, is kept by the bulk deletion.
C37_Witness ==
    \E d \in DelivererIds, e \in DelivererIds, o \in OrderIds, q \in OrderIds :
        /\ ~deliverers[d].exists /\ deliverers[e].exists
        /\ orders[o].status = "pending" /\ orders[o].deliverer_id = NULL
        /\ orders[q].status = "delivering" /\ orders[q].deliverer_id = e
        /\ bulk_user_action_check(AdminId, {e}, "delete") = "ok"
        /\ bulk_deleted({e}) = {}

\* The quantity of product p in the first n orders.
RECURSIVE OrderedInOrders(_, _)
OrderedInOrders(n, p) ==
    IF n = 0 THEN 0 ELSE ordered_quantity(orders[n].items, p) + OrderedInOrders(n - 1, p)

\* C38 (SpecOrders): no product's stock_quantity is negative after any
\* create_order calls, sequential or concurrent, that start from
\* non-negative stock, and the stock of a product has gone down by the
\* quantity the created orders hold of it.
C38_StockNeverNegative ==
    \A p \in ProductIds :
        /\ products[p].stock_quantity >= 0
        /\ products[p].stock_quantity = InitStock - OrderedInOrders(Len(orders), p)

\* C39 (SpecOrders): no two orders have the same order_number, whatever the
\* interleaving of the create_order calls, and an order that has just been
\* created is pending and has no deliverer.
C39_UniqueOrderNumbers ==
    /\ [](\A o \in OrderIds, q \in OrderIds :
            o # q => orders[o].order_number # orders[q].order_number)
    /\ [][Len(orders') > Len(orders) =>
            /\ orders'[Len(orders')].status = "pending"
            /\ orders'[Len(orders')].deliverer_id = NULL]_vars

\* An order was placed, and a request that had drawn the same number before
\* the order was committed is about to be refused by the constraint.
C39_Witness ==
    /\ Len(orders) = 1
    /\ \E w \in WorkerIds :
          /\ session[w].op = "create_order"
          /\ unique_violation(session[w].target)

====
